---- MODULE Spec2Model ----
(***************************************************************************)
(* Drag-and-drop dashboard: the sales-records data layer (DatabaseManager  *)
(* in mock mode, lib/supabase.ts), its aggregations, the dataset viewer's  *)
(* metrics and the widget store of App.tsx.                                *)
(*                                                                         *)
(* Conventions of the model                                                *)
(*  - money is fixed point in halves of the currency unit (unit_price 100  *)
(*    is 50.00), so that Math.round has something to round; every amount   *)
(*    is exactly representable as a double;                                *)
(*  - a date string 'YYYY-MM-DD' is its day number since 1970-01-01; an    *)
(*    instant is a number of ticks, TicksPerDay ticks to a day, and        *)
(*    new Date(date) is UTC midnight of that day;                          *)
(*  - a double produced by a division is kept as the quotient it rounds    *)
(*    (num / den, then * scale); NaN is the quotient 0 / 0;                     *)
(*  - a JavaScript object used as a dictionary is the sequence of its      *)
(*    <<key, value>> pairs in insertion order.                             *)
(***************************************************************************)
EXTENDS Integers, Sequences, FiniteSets, TLC

VARIABLES
    mockDataCache,  \* DatabaseManager.mockDataCache: user id -> records
    now,            \* the clock, in ticks
    env,            \* the JavaScript engine and time zone the app runs in
    result,         \* what the last call was and returned
    widgets,        \* App: the widget collection
    selectedWidget, \* App: <<>> for null, <<w>> for the selected widget
    isConfigOpen,   \* App: whether the configuration panel is open
    dashboardTitle, \* App: the title
    error,          \* App: the message of the banner, "null" for none
    selectedUser,   \* App: the id of the selected user, "" for null
    loads,          \* App: the loadUserDashboard calls in flight
    appStatus,      \* "constructed", "running" once mounted, or "crashed"
    storage,        \* localStorage['dashboard-layout']: <<>> or <<text>>
    timers,         \* the pending debounced saves, oldest first
    isLoading,      \* Dashboard: the flag behind 'Saving...'
    timer,          \* Dashboard: whether the timer of its effect is pending
    configPanel,    \* ConfigPanel: <<>> when not rendered, or <<its state>>
    dataManager     \* DataManager: <<>> when not rendered, or <<its state>>

appVars == <<widgets, selectedWidget, isConfigOpen, dashboardTitle, error,
             selectedUser, loads, appStatus, storage, timers,
             isLoading, timer, configPanel, dataManager>>

vars == <<mockDataCache, now, env, result, appVars>>

----------------------------------------------------------------------------
(* Bounds *)

\* ticks per day: 2 distinguishes "exactly midnight UTC" from "later that day"
TicksPerDay == 2

\* records generated per user (30 in the source, bounded here)
recordCount == 2

----------------------------------------------------------------------------
(* Generic helpers *)

Max(a, b) == IF a >= b THEN a ELSE b

Abs(a) == IF a < 0 THEN 0 - a ELSE a

RECURSIVE Pow2(_)
Pow2(k) == IF k = 0 THEN 1 ELSE 2 * Pow2(k - 1)

Range(s) == {s[i] : i \in 1..Len(s)}

\* Array.prototype.filter with the predicate given as the set of kept values
RECURSIVE FilterSeq(_, _)
FilterSeq(s, keep) ==
    IF s = <<>> THEN <<>>
    ELSE IF Head(s) \in keep THEN <<Head(s)>> \o FilterSeq(Tail(s), keep)
         ELSE FilterSeq(Tail(s), keep)

\* Array.prototype.slice(0, limit) for limit >= 0
SliceFront(s, limit) == SubSeq(s, 1, IF limit < Len(s) THEN limit ELSE Len(s))

\* Array.prototype.slice(-k) for k > 0
SliceBack(s, k) == SubSeq(s, IF Len(s) > k THEN Len(s) - k + 1 ELSE 1, Len(s))

\* Array.prototype.findIndex(r => r.id === id), 1-based, 0 for -1
RECURSIVE FindIndexFrom(_, _, _)
FindIndexFrom(s, id, i) ==
    IF i > Len(s) THEN 0
    ELSE IF s[i].id = id THEN i ELSE FindIndexFrom(s, id, i + 1)

findIndex(s, id) == FindIndexFrom(s, id, 1)

\* Array.prototype.splice(i, 1)
RemoveAt(s, i) == SubSeq(s, 1, i - 1) \o SubSeq(s, i + 1, Len(s))

----------------------------------------------------------------------------
(* Calendar: day number <-> civil date (proleptic Gregorian, UTC) *)

DaysFromCivil(y, m, d) ==
    LET yy  == IF m <= 2 THEN y - 1 ELSE y
        era == yy \div 400
        yoe == yy - era * 400
        mp  == IF m > 2 THEN m - 3 ELSE m + 9
        doy == (153 * mp + 2) \div 5 + d - 1
        doe == yoe * 365 + yoe \div 4 - yoe \div 100 + doy
    IN  era * 146097 + doe - 719468

CivilFromDays(z0) ==
    LET z   == z0 + 719468
        era == z \div 146097
        doe == z - era * 146097
        yoe == (doe - doe \div 1460 + doe \div 36524 - doe \div 146096) \div 365
        doy == doe - (365 * yoe + yoe \div 4 - yoe \div 100)
        mp  == (5 * doy + 2) \div 153
        d   == doy - (153 * mp + 2) \div 5 + 1
        m   == IF mp < 10 THEN mp + 3 ELSE mp - 9
        y   == yoe + era * 400 + (IF m <= 2 THEN 1 ELSE 0)
    IN  [y |-> y, m |-> m, d |-> d]

\* new Date(record.date).getTime()
DateTime(date) == date * TicksPerDay

\* new Date(t).toISOString().split('T')[0]
IsoDate(t) == t \div TicksPerDay

----------------------------------------------------------------------------
(* Doubles.  A double that comes out of a division is kept as the quotient  *)
(* it is the rounding of: fl(fl(num / den) * scale); den = 0 is 0 / 0.      *)

Num(n) == [num |-> n, den |-> 1, scale |-> 1]

NaN == [num |-> 0, den |-> 0, scale |-> 0]

IsNaN(q) == q.den = 0

\* a / b for a >= 0, b >= 0 and not (a > 0 and b = 0)
Div(a, b) == IF b = 0 THEN NaN ELSE [num |-> a, den |-> b, scale |-> 1]

\* q * k
Times(q, k) == IF IsNaN(q) THEN NaN ELSE [q EXCEPT !.scale = k]

\* q > 0, q < 0 (false for NaN)
IsPositive(q) == ~IsNaN(q) /\ q.num * q.scale > 0

IsNegative(q) == ~IsNaN(q) /\ q.num * q.scale < 0

\* Math.round of an amount in halves, in whole units (ties go up)
MathRound(h) == (h + 1) \div 2

\* Number.prototype.toFixed(d) of a non-negative quotient, as an integer count
\* of 10^-d (d = 1: tenths, d = 2: hundredths)
ToFixed(q, d) ==
    LET p == IF d = 0 THEN 1 ELSE IF d = 1 THEN 10 ELSE 100
    IN  (2 * p * q.num * q.scale + q.den) \div (2 * q.den)

----------------------------------------------------------------------------
(* IEEE 754 binary64, round to nearest even, for q = fl(a / n) and q * n    *)
(* with integers a > 0 and 0 < n < 64, in integer arithmetic.  With         *)
(* A = 64 a (a power of two changes no significand), D = n * 2^e such that  *)
(* D <= A < 2 D and A * 2^52 = M * D + r, the significand of q is M or      *)
(* M + 1 and q * n = A + eps * 2^-52 exactly, eps = -r or D - r.            *)

\* the largest e with d * 2^e <= a
RECURSIVE ExponentFrom(_, _, _)
ExponentFrom(a, d, e) ==
    IF d * Pow2(e + 1) <= a THEN ExponentFrom(a, d, e + 1) ELSE e

\* long division: `steps` more bits of a / d after the remainder r, giving
\* the last bit and the final remainder
RECURSIVE DivideBits(_, _, _, _)
DivideBits(r, d, bit, steps) ==
    IF steps = 0 THEN [r |-> r, bit |-> bit]
    ELSE IF 2 * r >= d THEN DivideBits(2 * r - d, d, 1, steps - 1)
         ELSE DivideBits(2 * r, d, 0, steps - 1)

\* eps and the binary exponent ea of A for fl(a / n) * n = A + eps * 2^-52
ProductError(a, n) ==
    LET A   == 64 * a
        e   == ExponentFrom(A, n, 0)
        D   == n * Pow2(e)
        dv  == DivideBits(A - D, D, 0, 52)
        up  == 2 * dv.r > D \/ (2 * dv.r = D /\ dv.bit = 1)
    IN  [eps |-> IF up THEN D - dv.r ELSE 0 - dv.r,
         ea  |-> ExponentFrom(A, 1, 0),
         A   |-> A]

\* fl(fl(a / n) * n) = a: the exact product rounds back to A when it lies
\* within half a unit in the last place of A (ties go to A, whose
\* significand is even; below a power of two the spacing halves)
ProductRoundsBack(a, n) ==
    IF a = 0 THEN TRUE
    ELSE LET pe == ProductError(a, n)
         IN  IF pe.eps < 0 /\ pe.A = Pow2(pe.ea)
             THEN 4 * Abs(pe.eps) <= Pow2(pe.ea)
             ELSE 2 * Abs(pe.eps) <= Pow2(pe.ea)

\* q * n = a in doubles, for the quotient q = fl(a / n)
TimesEquals(q, n, a) == q.num = a /\ q.den = n /\ q.scale = 1 /\ ProductRoundsBack(a, n)

\* the exact product q * n lies less than one unit in the last place from a
TimesWithinUlp(q, n, a) ==
    /\ q.num = a /\ q.den = n /\ q.scale = 1
    /\ a > 0 => Abs(ProductError(a, n).eps) < Pow2(ProductError(a, n).ea)

----------------------------------------------------------------------------
(* Stable sort (Array.prototype.sort): pairs [key, val] ascending by key;   *)
(* elements the comparator calls equal keep their order.                    *)

RECURSIVE InsertByKey(_, _)
InsertByKey(sorted, p) ==
    IF sorted = <<>> THEN <<p>>
    ELSE IF Head(sorted).key <= p.key
         THEN <<Head(sorted)>> \o InsertByKey(Tail(sorted), p)
         ELSE <<p>> \o sorted

RECURSIVE StableSortFrom(_, _, _)
StableSortFrom(pairs, i, acc) ==
    IF i > Len(pairs) THEN acc
    ELSE StableSortFrom(pairs, i + 1, InsertByKey(acc, pairs[i]))

StableSort(pairs) == StableSortFrom(pairs, 1, <<>>)

Vals(pairs) == [i \in 1..Len(pairs) |-> pairs[i].val]

----------------------------------------------------------------------------
(* JavaScript objects as dictionaries: <<key, value>> in insertion order.   *)

\* the array index a property key denotes ("365" -> 365), -1 when the key is
\* not a canonical array index; integer-like keys are enumerated first
ArrayIndex(key) ==
    CASE key = "365" -> 365
      [] key = "42"  -> 42
      [] OTHER       -> 0 - 1

RECURSIVE KeyIndexFrom(_, _, _)
KeyIndexFrom(obj, key, i) ==
    IF i > Len(obj) THEN 0
    ELSE IF obj[i].key = key THEN i ELSE KeyIndexFrom(obj, key, i + 1)

KeyIndex(obj, key) == KeyIndexFrom(obj, key, 1)

\* acc[key] = (acc[key] || 0) + amount
ObjAdd(obj, key, amount) ==
    LET i == KeyIndex(obj, key)
    IN  IF i = 0 THEN Append(obj, [key |-> key, val |-> amount])
        ELSE [obj EXCEPT ![i].val = obj[i].val + amount]

\* Object.entries: array-index keys ascending, then the others as inserted
ObjectEntries(obj) ==
    LET idx == SelectSeq(obj, LAMBDA e : ArrayIndex(e.key) >= 0)
        str == SelectSeq(obj, LAMBDA e : ArrayIndex(e.key) < 0)
        srt == StableSort([i \in 1..Len(idx) |->
                             [key |-> ArrayIndex(idx[i].key), val |-> idx[i]]])
    IN  Vals(srt) \o str

----------------------------------------------------------------------------
(* Sales records (interface SalesRecord).  The id `mock-${userId}-${n}` is  *)
(* kept as [user, n]; category, created_at and updated_at are read by no    *)
(* operation modelled here and are left out.                                *)

MockId(userId, n) == [user |-> userId, n |-> n]

\* parseInt(r.id.split('-')[2]) || 0
IdNumber(id) == id.n

\* (mutant) pending orders pass the filter too
CompletedOrPending(salesData) ==
    SelectSeq(salesData, LAMBDA r : r.status # "cancelled")

\* the records whose status is 'completed', in order
Completed(salesData) == SelectSeq(salesData, LAMBDA r : r.status = "completed")

\* reduce((sum, record) => sum + record.total_amount, 0)
RECURSIVE SumAmountFrom(_, _, _)
SumAmountFrom(records, i, sum) ==
    IF i > Len(records) THEN sum
    ELSE SumAmountFrom(records, i + 1, sum + records[i].total_amount)

SumAmount(records) == SumAmountFrom(records, 1, 0)

\* getMockSalesData: one record per draw of the random numbers, then
\* sort((a, b) => new Date(b.date) - new Date(a.date)), newest first
getMockSalesData(userId, draw, t) ==
    LET mockData == [i \in 1..Len(draw) |->
            [id           |-> MockId(userId, i - 1),
             user_id      |-> userId,
             date         |-> IsoDate(t - draw[i].daysAgo * TicksPerDay),
             customer     |-> draw[i].customer,
             product      |-> draw[i].product,
             quantity     |-> draw[i].quantity,
             unit_price   |-> draw[i].unitPrice,
             total_amount |-> draw[i].quantity * draw[i].unitPrice,
             region       |-> draw[i].region,
             status       |-> draw[i].status]]
    IN  Vals(StableSort([i \in 1..Len(mockData) |->
                [key |-> 0 - DateTime(mockData[i].date), val |-> mockData[i]]]))

----------------------------------------------------------------------------
(* DatabaseManager.getMetrics *)

\* reduce into { [record[field]]: sum of total_amount }
RECURSIVE RevenueByFrom(_, _, _, _)
RevenueByFrom(records, field, i, acc) ==
    IF i > Len(records) THEN acc
    ELSE RevenueByFrom(records, field, i + 1,
                       ObjAdd(acc, records[i][field], records[i].total_amount))

RevenueBy(records, field) == RevenueByFrom(records, field, 1, <<>>)

\* (mutant) the comparator reversed: a - b
SortEntriesAsc(entries) ==
    Vals(StableSort([i \in 1..Len(entries) |->
            [key |-> entries[i].val, val |-> entries[i]]]))

\* sort(([, a], [, b]) => b - a)
SortEntriesDesc(entries) ==
    Vals(StableSort([i \in 1..Len(entries) |->
            [key |-> 0 - entries[i].val, val |-> entries[i]]]))

\* (mutant) no fallback: an empty list yields the empty string
TopKeyNoFallback(revenue) ==
    LET sorted == SortEntriesDesc(ObjectEntries(revenue))
    IN  IF sorted = <<>> THEN "" ELSE sorted[1].key

\* Object.entries(revenue).sort(...)[0]?.[0] || 'N/A'
TopKey(revenue) ==
    LET sorted == SortEntriesDesc(ObjectEntries(revenue))
    IN  IF sorted = <<>> THEN "N/A"
        ELSE IF sorted[1].key = "" THEN "N/A" ELSE sorted[1].key

\* (mutant) the average is taken over all orders, not the completed ones
getMetricsAverageOverAll(salesData, t) ==
    LET completedOrders == Completed(salesData)
        totalRevenue    == SumAmount(completedOrders)
        totalOrders     == Len(salesData)
        averageOrderValue ==
            Div(totalRevenue, IF totalOrders = 0 THEN 1 ELSE totalOrders)
        topProduct      == TopKey(RevenueBy(completedOrders, "product"))
        topRegion       == TopKey(RevenueBy(completedOrders, "region"))
        thirtyDaysAgo   == t - 30 * TicksPerDay
        sixtyDaysAgo    == t - 60 * TicksPerDay
        recentRevenue   ==
            SumAmount(SelectSeq(completedOrders,
                LAMBDA r : DateTime(r.date) >= thirtyDaysAgo))
        previousRevenue ==
            SumAmount(SelectSeq(completedOrders,
                LAMBDA r : DateTime(r.date) >= sixtyDaysAgo
                           /\ DateTime(r.date) < thirtyDaysAgo))
        growthRate      ==
            IF previousRevenue > 0
            THEN Times(Div(recentRevenue - previousRevenue, previousRevenue), 100)
            ELSE Num(0)
        completionRate  == Times(Div(Len(completedOrders), totalOrders), 100)
    IN  [totalRevenue      |-> totalRevenue,
         totalOrders       |-> totalOrders,
         averageOrderValue |-> averageOrderValue,
         topProduct        |-> topProduct,
         topRegion         |-> topRegion,
         growthRate        |-> growthRate,
         completionRate    |-> completionRate]

getMetrics(salesData, t) ==
    LET completedOrders == Completed(salesData)
        totalRevenue    == SumAmount(completedOrders)
        totalOrders     == Len(salesData)
        averageOrderValue ==
            Div(totalRevenue,
                IF Len(completedOrders) = 0 THEN 1 ELSE Len(completedOrders))
        topProduct      == TopKey(RevenueBy(completedOrders, "product"))
        topRegion       == TopKey(RevenueBy(completedOrders, "region"))
        thirtyDaysAgo   == t - 30 * TicksPerDay
        sixtyDaysAgo    == t - 60 * TicksPerDay
        recentRevenue   ==
            SumAmount(SelectSeq(completedOrders,
                LAMBDA r : DateTime(r.date) >= thirtyDaysAgo))
        previousRevenue ==
            SumAmount(SelectSeq(completedOrders,
                LAMBDA r : DateTime(r.date) >= sixtyDaysAgo
                           /\ DateTime(r.date) < thirtyDaysAgo))
        growthRate      ==
            IF previousRevenue > 0
            THEN Times(Div(recentRevenue - previousRevenue, previousRevenue), 100)
            ELSE Num(0)
        completionRate  == Times(Div(Len(completedOrders), totalOrders), 100)
    IN  [totalRevenue      |-> totalRevenue,
         totalOrders       |-> totalOrders,
         averageOrderValue |-> averageOrderValue,
         topProduct        |-> topProduct,
         topRegion         |-> topRegion,
         growthRate        |-> growthRate,
         completionRate    |-> completionRate]

----------------------------------------------------------------------------
(* DatabaseManager.getRevenueByMonth / getRevenueByRegion / getTopProducts  *)

\* new Date(date).toLocaleDateString('en-US', {month: 'short', year:
\* '2-digit'}): the label 'Dec 24' is kept as [m |-> 12, yy |-> 24].  The
\* date is UTC midnight; west of Greenwich the local day is the day before.
MonthLabel(date, e) ==
    LET c == CivilFromDays(IF e.tzWest THEN date - 1 ELSE date)
    IN  [m |-> c.m, yy |-> c.y % 100]

\* new Date('Dec 24').getTime(): the format is not one ECMAScript defines.
\* Engines with the legacy parser read a month and a day of the month and
\* take the year 2001; the others give Invalid Date, whose time is NaN.
ParseLabel(label, e) ==
    IF e.dateParser = "monthDay"
    THEN [nan |-> FALSE, time |-> DateTime(DaysFromCivil(2001, label.m, label.yy))]
    ELSE [nan |-> TRUE, time |-> 0]

\* sort(([a], [b]) => new Date(a).getTime() - new Date(b).getTime()): a NaN
\* from the comparator counts as 0, so nothing moves
SortByLabelTime(entries, e) ==
    Vals(StableSort([i \in 1..Len(entries) |->
            [key |-> ParseLabel(entries[i].key, e).time, val |-> entries[i]]]))

\* reduce into { [month label]: sum of total_amount }
RECURSIVE MonthlyRevenueFrom(_, _, _, _)
MonthlyRevenueFrom(records, e, i, acc) ==
    IF i > Len(records) THEN acc
    ELSE MonthlyRevenueFrom(records, e, i + 1,
            ObjAdd(acc, MonthLabel(records[i].date, e), records[i].total_amount))

getRevenueByMonth(salesData, e) ==
    LET monthlyRevenue == MonthlyRevenueFrom(Completed(salesData), e, 1, <<>>)
        \* Object.entries: a label is never an array index, insertion order
        sortedEntries  == SliceBack(SortByLabelTime(monthlyRevenue, e), 6)
    IN  [labels |-> [i \in 1..Len(sortedEntries) |-> sortedEntries[i].key],
         values |-> [i \in 1..Len(sortedEntries) |-> MathRound(sortedEntries[i].val)]]

getRevenueByRegion(salesData) ==
    LET regionRevenue == RevenueBy(Completed(salesData), "region")
        sortedEntries == SortEntriesDesc(ObjectEntries(regionRevenue))
    IN  [labels |-> [i \in 1..Len(sortedEntries) |-> sortedEntries[i].key],
         values |-> [i \in 1..Len(sortedEntries) |-> MathRound(sortedEntries[i].val)]]

\* acc[product].revenue += total_amount; acc[product].orders += 1
StatsAdd(obj, key, amount) ==
    LET i == KeyIndex(obj, key)
    IN  IF i = 0
        THEN Append(obj, [key |-> key, val |-> [revenue |-> amount, orders |-> 1]])
        ELSE [obj EXCEPT ![i].val = [revenue |-> obj[i].val.revenue + amount,
                                     orders  |-> obj[i].val.orders + 1]]

RECURSIVE ProductStatsFrom(_, _, _)
ProductStatsFrom(records, i, acc) ==
    IF i > Len(records) THEN acc
    ELSE ProductStatsFrom(records, i + 1,
            StatsAdd(acc, records[i].product, records[i].total_amount))

\* (mutant) pending orders are counted as well
getTopProductsAllOrders(salesData, limit) ==
    LET productStats == ProductStatsFrom(CompletedOrPending(salesData), 1, <<>>)
        entries      == ObjectEntries(productStats)
        mapped       == [i \in 1..Len(entries) |->
                            [product |-> entries[i].key,
                             revenue |-> entries[i].val.revenue,
                             orders  |-> entries[i].val.orders]]
        sorted       == Vals(StableSort([i \in 1..Len(mapped) |->
                            [key |-> 0 - mapped[i].revenue, val |-> mapped[i]]]))
    IN  SliceFront(sorted, limit)

getTopProducts(salesData, limit) ==
    LET productStats == ProductStatsFrom(Completed(salesData), 1, <<>>)
        entries      == ObjectEntries(productStats)
        mapped       == [i \in 1..Len(entries) |->
                            [product |-> entries[i].key,
                             revenue |-> entries[i].val.revenue,
                             orders  |-> entries[i].val.orders]]
        sorted       == Vals(StableSort([i \in 1..Len(mapped) |->
                            [key |-> 0 - mapped[i].revenue, val |-> mapped[i]]]))
    IN  SliceFront(sorted, limit)

\* getRecentOrders in mock mode: the head of the cached list
getRecentOrders(cached, limit) == SliceFront(cached, limit)

----------------------------------------------------------------------------
(* DatasetViewer.calculateMetrics and the completion rate it displays *)

\* (mutant) no special case for an empty list
calculateMetricsNoGuard(data) ==
    LET completedOrders == Completed(data)
        totalRevenue    == SumAmount(completedOrders)
    IN  [totalRevenue      |-> totalRevenue,
         averageOrderValue |->
             Div(totalRevenue,
                 IF Len(completedOrders) = 0 THEN 1 ELSE Len(completedOrders)),
         completionRate    |-> Times(Div(Len(completedOrders), Len(data)), 100)]

calculateMetrics(data) ==
    IF Len(data) = 0
    THEN [totalRevenue |-> 0, averageOrderValue |-> Num(0), completionRate |-> Num(0)]
    ELSE LET completedOrders == Completed(data)
             totalRevenue    == SumAmount(completedOrders)
         IN  [totalRevenue      |-> totalRevenue,
              averageOrderValue |->
                  Div(totalRevenue,
                      IF Len(completedOrders) = 0 THEN 1 ELSE Len(completedOrders)),
              completionRate    |-> Times(Div(Len(completedOrders), Len(data)), 100)]

\* isNaN(metrics.completionRate) ? '0' : metrics.completionRate.toFixed(1),
\* in tenths of a percent
DisplayedCompletionRate(metrics) ==
    IF IsNaN(metrics.completionRate) THEN 0 ELSE ToFixed(metrics.completionRate, 1)

----------------------------------------------------------------------------
(* The calls on DatabaseManager in mock mode (supabase = null).  Every      *)
(* action takes the sets P its inputs are drawn from.                       *)

\* Map.prototype.set
CacheSet(cache, userId, data) ==
    [u \in DOMAIN cache \cup {userId} |-> IF u = userId THEN data ELSE cache[u]]

\* (mutant) every read generates the records anew
FetchedAnew(P, userId) ==
    {getMockSalesData(userId, draw, now) : draw \in P.draws}

\* what getSalesData(userId) may return: the cached list, or on the first
\* read a freshly generated one
Fetched(P, userId) ==
    IF userId \in DOMAIN mockDataCache
    THEN {mockDataCache[userId]}
    ELSE {getMockSalesData(userId, draw, now) : draw \in P.draws}

Ret(op, userId, arg, threw, out) ==
    [op |-> op, user |-> userId, arg |-> arg, threw |-> threw, out |-> out]

\* Math.max(...existingData.map(r => parseInt(r.id.split('-')[2]) || 0), 0)
RECURSIVE MaxIdFrom(_, _, _)
MaxIdFrom(existingData, i, m) ==
    IF i > Len(existingData) THEN m
    ELSE MaxIdFrom(existingData, i + 1, Max(m, IdNumber(existingData[i].id)))

\* { ...old, ...updates }
Merge(old, updates) ==
    [f \in DOMAIN old \cup DOMAIN updates |->
        IF f \in DOMAIN updates THEN updates[f] ELSE old[f]]

GetSalesData(P) ==
    \E userId \in P.users : \E data \in Fetched(P, userId) :
        /\ mockDataCache' = CacheSet(mockDataCache, userId, data)
        /\ result' = Ret("getSalesData", userId, 0, FALSE, data)
        /\ UNCHANGED <<now, env, appVars>>

AddSalesRecord(P) ==
    \E record \in P.newRecords : \E existingData \in Fetched(P, record.user_id) :
        /\ Len(existingData) < P.cap
        /\ LET userId    == record.user_id
               maxId     == MaxIdFrom(existingData, 1, 0)
               newRecord == Merge([id |-> MockId(userId, maxId + 1)], record)
           IN  /\ mockDataCache' =
                      CacheSet(mockDataCache, userId, <<newRecord>> \o existingData)
               /\ result' = Ret("addSalesRecord", userId, 0, FALSE, newRecord)
        /\ UNCHANGED <<now, env, appVars>>

\* (mutant) the record is looked up in the list of every user
UpdateSalesRecordAnyList(P) ==
    \E id \in P.updateIds : \E updates \in P.updates :
        LET holders     == {u \in DOMAIN mockDataCache :
                               findIndex(mockDataCache[u], id) # 0}
            userId      == IF holders # {} THEN CHOOSE u \in holders : TRUE ELSE ""
            recordIndex == IF userId # ""
                           THEN findIndex(mockDataCache[userId], id) ELSE 0
        IN  /\ IF userId # "" /\ recordIndex # 0
               THEN LET existingData  == mockDataCache[userId]
                        updatedRecord == Merge(existingData[recordIndex], updates)
                    IN  /\ mockDataCache' =
                               CacheSet(mockDataCache, userId,
                                   [existingData EXCEPT ![recordIndex] = updatedRecord])
                        /\ result' = Ret("updateSalesRecord", userId, id, FALSE,
                                         updatedRecord)
               ELSE /\ UNCHANGED mockDataCache
                    /\ result' = Ret("updateSalesRecord", userId, id, TRUE,
                                     "Record not found")
            /\ UNCHANGED <<now, env, appVars>>

UpdateSalesRecord(P) ==
    \E id \in P.updateIds : \E updates \in P.updates :
        LET userId      == IF "user_id" \in DOMAIN updates THEN updates.user_id ELSE ""
            recordIndex == IF userId \in DOMAIN mockDataCache
                           THEN findIndex(mockDataCache[userId], id) ELSE 0
        IN  /\ IF userId # "" /\ recordIndex # 0
               THEN LET existingData  == mockDataCache[userId]
                        updatedRecord == Merge(existingData[recordIndex], updates)
                    IN  /\ mockDataCache' =
                               CacheSet(mockDataCache, userId,
                                   [existingData EXCEPT ![recordIndex] = updatedRecord])
                        /\ result' = Ret("updateSalesRecord", userId, id, FALSE,
                                         updatedRecord)
               ELSE /\ UNCHANGED mockDataCache
                    /\ result' = Ret("updateSalesRecord", userId, id, TRUE,
                                     "Record not found")
            /\ UNCHANGED <<now, env, appVars>>

\* the loop over the cache entries stops at the first list that holds the
\* id; an id names its user, so at most one list does
DeleteSalesRecord(P) ==
    \E id \in P.deleteIds :
        /\ IF \E u \in DOMAIN mockDataCache : findIndex(mockDataCache[u], id) # 0
           THEN LET userId == CHOOSE u \in DOMAIN mockDataCache :
                                  findIndex(mockDataCache[u], id) # 0
                    data   == mockDataCache[userId]
                IN  mockDataCache' =
                        CacheSet(mockDataCache, userId,
                                 RemoveAt(data, findIndex(data, id)))
           ELSE UNCHANGED mockDataCache
        /\ result' = Ret("deleteSalesRecord", id.user, id, FALSE, "void")
        /\ UNCHANGED <<now, env, appVars>>

GetMetrics(P) ==
    \E userId \in P.users : \E salesData \in Fetched(P, userId) :
        /\ mockDataCache' = CacheSet(mockDataCache, userId, salesData)
        /\ result' = Ret("getMetrics", userId, 0, FALSE, getMetrics(salesData, now))
        /\ UNCHANGED <<now, env, appVars>>

GetRevenueByMonth(P) ==
    \E userId \in P.users : \E salesData \in Fetched(P, userId) :
        /\ mockDataCache' = CacheSet(mockDataCache, userId, salesData)
        /\ result' = Ret("getRevenueByMonth", userId, 0, FALSE,
                         getRevenueByMonth(salesData, env))
        /\ UNCHANGED <<now, env, appVars>>

GetRevenueByRegion(P) ==
    \E userId \in P.users : \E salesData \in Fetched(P, userId) :
        /\ mockDataCache' = CacheSet(mockDataCache, userId, salesData)
        /\ result' = Ret("getRevenueByRegion", userId, 0, FALSE,
                         getRevenueByRegion(salesData))
        /\ UNCHANGED <<now, env, appVars>>

\* limit = DefaultLimit stands for a call without the argument
GetTopProducts(P) ==
    \E userId \in P.users : \E limit \in P.limits :
    \E salesData \in Fetched(P, userId) :
        /\ mockDataCache' = CacheSet(mockDataCache, userId, salesData)
        /\ result' = Ret("getTopProducts", userId, limit, FALSE,
                         getTopProducts(salesData, limit))
        /\ UNCHANGED <<now, env, appVars>>

GetRecentOrders(P) ==
    \E userId \in P.users : \E limit \in P.limits :
    \E cached \in Fetched(P, userId) :
        /\ mockDataCache' = CacheSet(mockDataCache, userId, cached)
        /\ result' = Ret("getRecentOrders", userId, limit, FALSE,
                         getRecentOrders(cached, limit))
        /\ UNCHANGED <<now, env, appVars>>

\* DatasetViewer: loadData for the selected user ("" is no user: data = [])
\* and the metrics the viewer then renders
ViewerLoadData(P) ==
    \E userId \in P.users \cup {""} :
    \E data \in (IF userId = "" THEN {<<>>} ELSE Fetched(P, userId)) :
        /\ mockDataCache' = IF userId = "" THEN mockDataCache
                            ELSE CacheSet(mockDataCache, userId, data)
        /\ result' = Ret("calculateMetrics", userId, Len(data), FALSE,
                         [metrics   |-> calculateMetrics(data),
                          displayed |-> DisplayedCompletionRate(calculateMetrics(data))])
        /\ UNCHANGED <<now, env, appVars>>

\* useState([]), useState(null), useState(false), useState('Sales
\* Dashboard'), ...: the component before its effects have run
AppConstructed ==
    /\ widgets = <<>>
    /\ selectedWidget = <<>>
    /\ isConfigOpen = FALSE
    /\ dashboardTitle = "Sales Dashboard"
    /\ error = "null"
    /\ selectedUser = ""
    /\ loads = <<>>
    /\ appStatus = "constructed"
    /\ timers = <<>>
    /\ isLoading = FALSE
    /\ timer = FALSE
    /\ configPanel = <<>>
    /\ dataManager = <<>>

AppInit ==
    /\ AppConstructed
    /\ storage = <<>>

DataInit(P) ==
    /\ mockDataCache = <<>>
    /\ now \in P.nows
    /\ env \in P.envs
    /\ result = Ret("none", "", 0, FALSE, "void")
    /\ AppInit

----------------------------------------------------------------------------
(* App: the widget store *)

WidgetTypes == {"metric", "chart", "table", "progress", "text"}

\* `New ${type.charAt(0).toUpperCase() + type.slice(1)}`
DefaultTitle(type) ==
    CASE type = "metric"   -> "New Metric"
      [] type = "chart"    -> "New Chart"
      [] type = "table"    -> "New Table"
      [] type = "progress" -> "New Progress"
      [] type = "text"     -> "New Text"

getDefaultSize(type) ==
    CASE type = "metric"   -> [width |-> 300, height |-> 150]
      [] type = "chart"    -> [width |-> 400, height |-> 300]
      [] type = "table"    -> [width |-> 500, height |-> 250]
      [] type = "progress" -> [width |-> 250, height |-> 200]
      [] type = "text"     -> [width |-> 300, height |-> 100]

getDefaultData(type) ==
    CASE type = "metric"   -> [value |-> "$0", change |-> "0%", trend |-> "neutral"]
      [] type = "chart"    -> [labels |-> <<"Mon", "Tue", "Wed", "Thu", "Fri">>,
                               values |-> <<10, 20, 15, 30, 25>>]
      [] type = "table"    -> [headers |-> <<"Column 1", "Column 2">>,
                               rows    |-> <<<<"Row 1 Col 1", "Row 1 Col 2">>>>]
      [] type = "progress" -> [current |-> 50, target |-> 100, label |-> "Progress"]
      [] type = "text"     -> [content |-> "Enter your text here..."]

\* generateId() of utils/helpers: a new id, one that no widget of the
\* collection has
generateId(ids, prev) == ids \ {prev[i].id : i \in 1..Len(prev)}

\* (mutant) the new widget is put in front
addWidgetInFront(prev, type, id) ==
    <<[id       |-> id,
       type     |-> type,
       title    |-> DefaultTitle(type),
       position |-> [x |-> 50, y |-> 50],
       size     |-> getDefaultSize(type),
       data     |-> getDefaultData(type),
       config   |-> <<>>]>> \o prev

\* setWidgets(prev => [...prev, newWidget])
addWidget(prev, type, id) ==
    Append(prev, [id       |-> id,
                  type     |-> type,
                  title    |-> DefaultTitle(type),
                  position |-> [x |-> 50, y |-> 50],
                  size     |-> getDefaultSize(type),
                  data     |-> getDefaultData(type),
                  config   |-> <<>>])

\* prev.filter(widget => widget.id !== id)
deleteWidget(prev, id) == SelectSeq(prev, LAMBDA widget : widget.id # id)

----------------------------------------------------------------------------
(* App: the snapshot in localStorage and the debounced save *)

\* a number that is NaN, and the value null, are kept as two integers that
\* no input of the model takes as a number
NaNNumber == 0 - 1000001

NullValue == 0 - 1000002

\* JSON.stringify writes NaN as null
JsonNumber(n) == IF n = NaNNumber THEN NullValue ELSE n

JsonNumbers(rec, fields) ==
    [f \in DOMAIN rec |-> IF f \in fields THEN JsonNumber(rec[f]) ELSE rec[f]]

\* the numbers of a widget: its position, its size and, in a progress
\* widget, data.current and data.target
JsonWidget(w) ==
    [f \in DOMAIN w |->
        CASE f = "position" -> JsonNumbers(w.position, {"x", "y"})
          [] f = "size"     -> JsonNumbers(w.size, {"width", "height"})
          [] f = "data"     -> IF w.type = "progress"
                               THEN JsonNumbers(w.data, {"current", "target"})
                               ELSE w.data
          [] OTHER          -> w[f]]

\* JSON.stringify(layout): the text, kept as the document it denotes
JSONStringify(layout) ==
    [kind |-> "json",
     doc  |-> [title        |-> layout.title,
               widgets      |-> [i \in 1..Len(layout.widgets) |->
                                    JsonWidget(layout.widgets[i])],
               lastModified |-> layout.lastModified]]

\* JSON.parse(text): throws on a text that is not JSON
JSONParse(text) ==
    IF text.kind = "json" THEN [threw |-> FALSE, value |-> text.doc]
    ELSE [threw |-> TRUE, value |-> <<>>]

\* validateDashboardData(data) of utils/helpers: the shape of a
\* DashboardLayout, a title and a list of widgets with the fields of Widget
validateDashboardData(data) ==
    /\ {"title", "widgets"} \subseteq DOMAIN data
    /\ \A i \in 1..Len(data.widgets) :
           {"id", "type", "title", "position", "size", "data", "config"}
               \subseteq DOMAIN data.widgets[i]

\* debounce(func, wait) of utils/helpers: a call of the debounced function
\* cancels the pending timer of that function and starts a new one; timers
\* of other debounced functions stay
debounce(pending, sameFunction, args) ==
    IF sameFunction THEN <<args>> ELSE Append(pending, args)

\* const debouncedSave = debounce(..., 1000) in the body of App: every
\* render makes a new debounced function, and the effect calls that one
debouncedSave(pending, w, title) ==
    debounce(pending, FALSE, [widgets |-> w, title |-> title])

\* useEffect(..., [widgets, dashboardTitle]): runs after a render in which
\* the widgets array or the title is a new one
SaveEffect(pending, w, title) ==
    IF Len(w) > 0 \/ title # "User Dashboard"
    THEN debouncedSave(pending, w, title)
    ELSE pending

Running == appStatus = "running"

\* Dashboard: useEffect(..., [widgets]), run after a render with a new
\* widgets array: the cleanup of the run before clears its timer; a
\* collection that is not empty sets the flag and starts a timer of 500 ms
AutoSaveEffect(w) ==
    /\ isLoading' = (isLoading \/ Len(w) > 0)
    /\ timer' = (Len(w) > 0)

\* ConfigPanel: useState(widget.title), useState(widget.config.color ||
\* '#3B82F6') of the panel when it is first rendered
ConfigPanelState(widget) ==
    [title |-> widget.title,
     color |-> IF "color" \in DOMAIN widget.config
               THEN widget.config.color ELSE "#3B82F6"]

\* a timer of a debounced save fires: the body of the debounced function;
\* a timer outlives the component, but not the page
SaveDashboard(P) ==
    \E quotaExceeded \in P.quota :
        /\ appStatus # "constructed"
        /\ timers # <<>>
        /\ timers' = Tail(timers)
        /\ IF quotaExceeded
           THEN UNCHANGED storage
           ELSE storage' = <<JSONStringify([title        |-> Head(timers).title,
                                            widgets      |-> Head(timers).widgets,
                                            lastModified |-> now])>>
        \* setError does nothing in a component that is unmounted
        /\ error' = IF ~Running THEN error
                    ELSE IF quotaExceeded THEN "Failed to save dashboard changes."
                    ELSE "null"
        /\ result' = Ret("saveDashboard", "", 0, quotaExceeded, "void")
        /\ UNCHANGED <<mockDataCache, now, env, widgets, selectedWidget,
                       isConfigOpen, dashboardTitle, selectedUser, loads, appStatus,
                       isLoading, timer, configPanel, dataManager>>

----------------------------------------------------------------------------
(* App: the handlers of the widget store; a handler that makes a new        *)
(* widgets array is followed by the save effect                             *)

AddWidget(P) ==
    \E type \in P.types : \E id \in generateId(P.ids, widgets) :
        /\ Running
        /\ Len(widgets) < P.cap
        /\ Len(timers) < P.maxTimers
        /\ widgets' = addWidget(widgets, type, id)
        /\ timers' = SaveEffect(timers, widgets', dashboardTitle)
        /\ AutoSaveEffect(widgets')
        /\ result' = Ret("addWidget", "", type, FALSE, "void")
        /\ UNCHANGED <<mockDataCache, now, env, selectedWidget, isConfigOpen,
                       dashboardTitle, error, selectedUser, loads, appStatus, storage,
                       configPanel, dataManager>>

\* (mutant) the panel is closed whatever was selected
DeleteWidgetClosesPanel(P) ==
    \E id \in P.ids :
        /\ Running
        /\ Len(timers) < P.maxTimers
        /\ widgets' = deleteWidget(widgets, id)
        /\ selectedWidget' = <<>>
        /\ isConfigOpen' = FALSE
        /\ configPanel' = <<>>
        /\ timers' = SaveEffect(timers, widgets', dashboardTitle)
        /\ AutoSaveEffect(widgets')
        /\ result' = Ret("deleteWidget", "", id, FALSE, "void")
        /\ UNCHANGED <<mockDataCache, now, env, dashboardTitle, error,
                       selectedUser, loads, appStatus, storage, dataManager>>

DeleteWidget(P) ==
    \E id \in P.ids :
        /\ Running
        /\ Len(timers) < P.maxTimers
        /\ widgets' = deleteWidget(widgets, id)
        /\ IF selectedWidget # <<>> /\ selectedWidget[1].id = id
           THEN selectedWidget' = <<>> /\ isConfigOpen' = FALSE /\ configPanel' = <<>>
           ELSE UNCHANGED <<selectedWidget, isConfigOpen, configPanel>>
        /\ timers' = SaveEffect(timers, widgets', dashboardTitle)
        /\ AutoSaveEffect(widgets')
        /\ result' = Ret("deleteWidget", "", id, FALSE, "void")
        /\ UNCHANGED <<mockDataCache, now, env, dashboardTitle, error,
                       selectedUser, loads, appStatus, storage, dataManager>>

\* a click on a widget of the dashboard; a panel that is already rendered
\* gets the widget as a new prop and keeps its state
HandleWidgetSelect ==
    \E i \in 1..Len(widgets) :
        /\ Running
        /\ selectedWidget' = <<widgets[i]>>
        /\ isConfigOpen' = TRUE
        /\ configPanel' = IF configPanel = <<>>
                          THEN <<ConfigPanelState(widgets[i])>> ELSE configPanel
        /\ result' = Ret("handleWidgetSelect", "", widgets[i].id, FALSE, "void")
        /\ UNCHANGED <<mockDataCache, now, env, widgets, dashboardTitle, error,
                       selectedUser, loads, appStatus, storage, timers,
                       isLoading, timer, dataManager>>

ClearDashboard(P) ==
    /\ Running
    /\ Len(timers) < P.maxTimers
    /\ widgets' = <<>>
    /\ selectedWidget' = <<>>
    /\ isConfigOpen' = FALSE
    /\ error' = "null"
    /\ configPanel' = <<>>
    /\ timers' = SaveEffect(timers, widgets', dashboardTitle)
    /\ AutoSaveEffect(widgets')
    /\ result' = Ret("clearDashboard", "", 0, FALSE, "void")
    /\ UNCHANGED <<mockDataCache, now, env, dashboardTitle, selectedUser, loads,
                   appStatus, storage, dataManager>>

\* (mutant) the matching widget is replaced by the update
updateWidgetReplace(prev, id, updates) ==
    [i \in 1..Len(prev) |-> IF prev[i].id = id THEN updates ELSE prev[i]]

\* prev.map(widget => widget.id === id ? { ...widget, ...updates } : widget)
updateWidget(prev, id, updates) ==
    [i \in 1..Len(prev) |->
        IF prev[i].id = id THEN Merge(prev[i], updates) ELSE prev[i]]

\* updateWidget(id, updates), as the dashboard calls it after a drag or a
\* resize and the configuration panel after an edit
UpdateWidget(P) ==
    \E id \in P.ids : \E updates \in P.widgetUpdates :
        /\ Running
        /\ Len(timers) < P.maxTimers
        /\ widgets' = updateWidget(widgets, id, updates)
        /\ timers' = SaveEffect(timers, widgets', dashboardTitle)
        /\ AutoSaveEffect(widgets')
        /\ result' = Ret("updateWidget", "", [id |-> id, updates |-> updates],
                         FALSE, "void")
        /\ UNCHANGED <<mockDataCache, now, env, selectedWidget, isConfigOpen,
                       dashboardTitle, error, selectedUser, loads, appStatus, storage,
                       configPanel, dataManager>>

\* Header.handleTitleSubmit: onTitleChange(tempTitle) is setDashboardTitle;
\* setting the title it has already does not render again
SetDashboardTitle(P) ==
    \E title \in P.titles :
        /\ Running
        /\ Len(timers) < P.maxTimers
        /\ dashboardTitle' = title
        /\ timers' = IF title = dashboardTitle THEN timers
                      ELSE SaveEffect(timers, widgets, title)
        /\ result' = Ret("setDashboardTitle", "", title, FALSE, "void")
        /\ UNCHANGED <<mockDataCache, now, env, widgets, selectedWidget,
                       isConfigOpen, error, selectedUser, loads, appStatus, storage,
                       isLoading, timer, configPanel, dataManager>>

\* the first render and its effects: the load effect reads the snapshot,
\* the save effect runs for the state of the first render, and once more
\* for the state the load effect has set
Mount(P) ==
    /\ appStatus = "constructed"
    /\ IF storage = <<>>
       THEN \* loadSalesDashboard is not defined: a ReferenceError in the
            \* effect, which unmounts the application
            /\ appStatus' = "crashed"
            /\ result' = Ret("mount", "", 0, TRUE, "ReferenceError")
            /\ UNCHANGED <<widgets, dashboardTitle, error, timers, isLoading, timer>>
       ELSE LET parsed  == JSONParse(storage[1])
                first   == SaveEffect(<<>>, widgets, dashboardTitle)
                fromDoc == \* data.widgets || [], data.title || 'User Dashboard'
                    [widgets |-> parsed.value.widgets,
                     title   |-> IF parsed.value.title = ""
                                 THEN "User Dashboard" ELSE parsed.value.title]
            IN  /\ appStatus' = "running"
                /\ IF ~parsed.threw /\ validateDashboardData(parsed.value)
                   THEN /\ widgets' = fromDoc.widgets
                        /\ dashboardTitle' = fromDoc.title
                        /\ timers' = SaveEffect(first, widgets', dashboardTitle')
                        /\ UNCHANGED error
                   ELSE /\ error' = "Failed to load saved dashboard. Loading default layout."
                        /\ timers' = first
                        /\ UNCHANGED <<widgets, dashboardTitle>>
                \* the dashboard is rendered once the load effect is over
                /\ AutoSaveEffect(widgets')
                /\ result' = Ret("mount", "", 0, FALSE, "void")
    /\ UNCHANGED <<mockDataCache, now, env, selectedWidget, isConfigOpen,
                   selectedUser, loads, storage, configPanel, dataManager>>

\* window.location.reload(): the page starts anew, with the state of a
\* constructed App, an empty record cache and no timer; the storage stays
Reloaded ==
    /\ widgets' = <<>>
    /\ selectedWidget' = <<>>
    /\ isConfigOpen' = FALSE
    /\ dashboardTitle' = "Sales Dashboard"
    /\ error' = "null"
    /\ selectedUser' = ""
    /\ loads' = <<>>
    /\ appStatus' = "constructed"
    /\ timers' = <<>>
    /\ isLoading' = FALSE
    /\ timer' = FALSE
    /\ configPanel' = <<>>
    /\ dataManager' = <<>>
    /\ mockDataCache' = <<>>

\* the user reloads the page
Reload ==
    /\ appStatus # "constructed"
    /\ Reloaded
    /\ result' = Ret("reload", "", 0, FALSE, "void")
    /\ UNCHANGED <<now, env, storage>>

\* Header.handleImport: the text of the file is stored as the snapshot and
\* the page is reloaded
HandleImport(P) ==
    \E file \in P.files :
        /\ Running
        /\ storage' = <<file>>
        /\ Reloaded
        /\ result' = Ret("handleImport", "", 0, FALSE, "void")
        /\ UNCHANGED <<now, env>>

----------------------------------------------------------------------------
(* TableWidget: the operations on the headers and the rows of a table       *)
(* widget.  Columns and rows are counted from 1.                            *)

\* [...headers, `Column ${headers.length + 1}`], and `New Cell` in every row
addColumn(data) ==
    [headers |-> Append(data.headers,
                        "Column " \o ToString(Len(data.headers) + 1)),
     rows    |-> [r \in 1..Len(data.rows) |-> Append(data.rows[r], "New Cell")]]

\* headers and every row without the column
removeColumn(data, columnIndex) ==
    [headers |-> RemoveAt(data.headers, columnIndex),
     rows    |-> [r \in 1..Len(data.rows) |->
                     IF columnIndex <= Len(data.rows[r])
                     THEN RemoveAt(data.rows[r], columnIndex) ELSE data.rows[r]]]

\* a new row of `Row ${rows.length + 1} Col ${index + 1}`, one for each header
addRow(data) ==
    [headers |-> data.headers,
     rows    |-> Append(data.rows,
                        [c \in 1..Len(data.headers) |->
                            "Row " \o ToString(Len(data.rows) + 1)
                                   \o " Col " \o ToString(c)])]

removeRow(data, rowIndex) ==
    [headers |-> data.headers, rows |-> RemoveAt(data.rows, rowIndex)]

updateCell(data, rowIndex, colIndex, value) ==
    [headers |-> data.headers,
     rows    |-> [data.rows EXCEPT ![rowIndex][colIndex] = value]]

updateHeader(data, colIndex, value) ==
    [headers |-> [data.headers EXCEPT ![colIndex] = value], rows |-> data.rows]

\* what an operation of the table of widget i does to the application:
\* onUpdateWidget(widget.id, { data }) when it is called, nothing when the
\* operation has returned before
TableCall(P, i, op, arg, called, data) ==
    /\ Running
    /\ Len(timers) < P.maxTimers
    /\ IF called
       THEN /\ widgets' = updateWidget(widgets, widgets[i].id, [data |-> data])
            /\ timers' = SaveEffect(timers, widgets', dashboardTitle)
            /\ AutoSaveEffect(widgets')
       ELSE UNCHANGED <<widgets, timers, isLoading, timer>>
    /\ result' = Ret(op, "", [id |-> widgets[i].id, at |-> arg], FALSE, "void")
    /\ UNCHANGED <<mockDataCache, now, env, selectedWidget, isConfigOpen,
                   dashboardTitle, error, selectedUser, loads, appStatus, storage,
                   configPanel, dataManager>>

\* the tables of the collection
Tables == {i \in 1..Len(widgets) : widgets[i].type = "table"}

AddColumn(P) ==
    \E i \in Tables :
        /\ Len(widgets[i].data.headers) < P.maxColumns
        /\ TableCall(P, i, "addColumn", 0, TRUE, addColumn(widgets[i].data))

RemoveColumn(P) ==
    \E i \in Tables : \E columnIndex \in 1..Len(widgets[i].data.headers) :
        TableCall(P, i, "removeColumn", columnIndex,
                  ~(Len(widgets[i].data.headers) <= 1),
                  removeColumn(widgets[i].data, columnIndex))

AddRow(P) ==
    \E i \in Tables :
        /\ Len(widgets[i].data.rows) < P.maxRows
        /\ TableCall(P, i, "addRow", 0, TRUE, addRow(widgets[i].data))

\* (mutant) the last row is removed too
RemoveRowUnguarded(P) ==
    \E i \in Tables : \E rowIndex \in 1..Len(widgets[i].data.rows) :
        TableCall(P, i, "removeRow", rowIndex, TRUE,
                  removeRow(widgets[i].data, rowIndex))

RemoveRow(P) ==
    \E i \in Tables : \E rowIndex \in 1..Len(widgets[i].data.rows) :
        TableCall(P, i, "removeRow", rowIndex,
                  ~(Len(widgets[i].data.rows) <= 1),
                  removeRow(widgets[i].data, rowIndex))

UpdateCell(P) ==
    \E i \in Tables : \E rowIndex \in 1..Len(widgets[i].data.rows) :
        \E colIndex \in 1..Len(widgets[i].data.rows[rowIndex]) :
            \E value \in P.cellValues :
                TableCall(P, i, "updateCell",
                          <<rowIndex, colIndex>>, TRUE,
                          updateCell(widgets[i].data, rowIndex, colIndex, value))

UpdateHeader(P) ==
    \E i \in Tables : \E colIndex \in 1..Len(widgets[i].data.headers) :
        \E value \in P.cellValues :
            TableCall(P, i, "updateHeader", colIndex, TRUE,
                      updateHeader(widgets[i].data, colIndex, value))

----------------------------------------------------------------------------
(* Dashboard: the auto-save indicator shows 'Saving...' while isLoading.    *)

\* the timeout of the auto-save effect, 500 ms after the last change of the
\* collection: setLastSaved(new Date()) and setIsLoading(false)
AutoSaveTimeout ==
    /\ Running
    /\ timer
    /\ isLoading' = FALSE
    /\ timer' = FALSE
    /\ result' = Ret("autoSaveTimeout", "", 0, FALSE, "void")
    /\ UNCHANGED <<mockDataCache, now, env, widgets, selectedWidget, isConfigOpen,
                   dashboardTitle, error, selectedUser, loads, appStatus, storage,
                   timers, configPanel, dataManager>>

----------------------------------------------------------------------------
(* Number inputs.  The value of an input is the sequence of its characters; *)
(* the value of <input type="number"> is empty for a text that is not a     *)
(* number.                                                                  *)

DigitChars == <<"0", "1", "2", "3", "4", "5", "6", "7", "8", "9">>

IsDigit(c) == \E d \in 1..10 : DigitChars[d] = c

DigitValue(c) == (CHOOSE d \in 1..10 : DigitChars[d] = c) - 1

\* the decimal digits of text from position i on: their value, their
\* number and the position after them
RECURSIVE ReadDigits(_, _, _, _)
ReadDigits(text, i, value, count) ==
    IF i <= Len(text) /\ IsDigit(text[i])
    THEN ReadDigits(text, i + 1, 10 * value + DigitValue(text[i]), count + 1)
    ELSE [value |-> value, count |-> count, next |-> i]

HasSign(text) == text # <<>> /\ text[1] \in {"-", "+"}

Signed(text, magnitude) ==
    IF HasSign(text) /\ text[1] = "-" THEN 0 - magnitude ELSE magnitude

\* parseInt(text): an optional sign and the digits that follow it, NaN
\* when there is no digit
parseInt(text) ==
    LET whole == ReadDigits(text, IF HasSign(text) THEN 2 ELSE 1, 0, 0)
    IN  IF whole.count = 0 THEN NaNNumber ELSE Signed(text, whole.value)

RECURSIVE Pow10(_)
Pow10(k) == IF k = 0 THEN 1 ELSE 10 * Pow10(k - 1)

\* parseFloat(text), in halves: an optional sign, digits, and a point with
\* the digits after it; NaN when there is no digit.  The fractions of the
\* model are whole halves
parseFloat(text) ==
    LET whole    == ReadDigits(text, IF HasSign(text) THEN 2 ELSE 1, 0, 0)
        hasPoint == whole.next <= Len(text) /\ text[whole.next] = "."
        fraction == IF hasPoint THEN ReadDigits(text, whole.next + 1, 0, 0)
                    ELSE [value |-> 0, count |-> 0, next |-> whole.next]
    IN  IF whole.count = 0 /\ fraction.count = 0 THEN NaNNumber
        ELSE Signed(text, 2 * whole.value
                              + (2 * fraction.value) \div Pow10(fraction.count))

\* n || d: NaN and 0 are falsy
OrElse(n, d) == IF n = NaNNumber \/ n = 0 THEN d ELSE n

----------------------------------------------------------------------------
(* ConfigPanel: the panel renders the widget App holds in selectedWidget,   *)
(* which is the widget as it was when it was selected.                      *)

\* the updates an input of the panel passes to onUpdateWidget(widget.id, ...)
ConfigPanelUpdates(widget, field, value) ==
    CASE field = "width" ->
             [size |-> Merge(widget.size, [width |-> parseInt(value)])]
      [] field = "height" ->
             [size |-> Merge(widget.size, [height |-> parseInt(value)])]
      [] field = "current" ->
             [data |-> Merge(widget.data, [current |-> parseInt(value)])]
      [] field = "target" ->
             [data |-> Merge(widget.data, [target |-> parseInt(value)])]
      [] field = "label" -> [data |-> Merge(widget.data, [label |-> value])]
      [] field = "value" -> [data |-> Merge(widget.data, [value |-> value])]
      [] field = "change" -> [data |-> Merge(widget.data, [change |-> value])]
      [] field = "trend" -> [data |-> Merge(widget.data, [trend |-> value])]
      [] field = "chartType" ->
             [config |-> Merge(widget.config, [chartType |-> value])]

\* the inputs the panel renders for a widget: renderSpecificConfig() by
\* type, and the two of the layout
ConfigPanelFields(widget) ==
    {"width", "height"}
        \cup (CASE widget.type = "metric"   -> {"value", "change", "trend"}
                [] widget.type = "chart"    -> {"chartType"}
                [] widget.type = "progress" -> {"current", "target", "label"}
                [] OTHER                    -> {})

\* onChange of an input of the panel
ConfigPanelOnChange(P) ==
    \E change \in P.panelChanges :
        /\ Running
        /\ configPanel # <<>>
        /\ change.field \in ConfigPanelFields(selectedWidget[1])
        /\ Len(timers) < P.maxTimers
        /\ widgets' = updateWidget(widgets, selectedWidget[1].id,
                          ConfigPanelUpdates(selectedWidget[1], change.field,
                                             change.value))
        /\ timers' = SaveEffect(timers, widgets', dashboardTitle)
        /\ AutoSaveEffect(widgets')
        /\ result' = Ret("configPanelOnChange", "", change, FALSE, "void")
        /\ UNCHANGED <<mockDataCache, now, env, selectedWidget, isConfigOpen,
                       dashboardTitle, error, selectedUser, loads, appStatus, storage,
                       configPanel, dataManager>>

\* setTitle(e.target.value) and setColor(colorOption) of the panel
ConfigPanelSetState(P) ==
    \E title \in P.panelTitles : \E color \in P.colorOptions :
        /\ Running
        /\ configPanel # <<>>
        /\ configPanel' = <<[title |-> title, color |-> color]>>
        /\ configPanel' # configPanel
        /\ result' = Ret("configPanelSetState", "", 0, FALSE, "void")
        /\ UNCHANGED <<mockDataCache, now, env, widgets, selectedWidget, isConfigOpen,
                       dashboardTitle, error, selectedUser, loads, appStatus, storage,
                       timers, isLoading, timer, dataManager>>

\* handleSave: onUpdateWidget(widget.id, { title, config }) and onClose()
HandleSave(P) ==
    /\ Running
    /\ configPanel # <<>>
    /\ Len(timers) < P.maxTimers
    /\ widgets' = updateWidget(widgets, selectedWidget[1].id,
                      [title  |-> configPanel[1].title,
                       config |-> Merge(selectedWidget[1].config,
                                        [color |-> configPanel[1].color])])
    /\ isConfigOpen' = FALSE
    /\ configPanel' = <<>>
    /\ timers' = SaveEffect(timers, widgets', dashboardTitle)
    /\ AutoSaveEffect(widgets')
    /\ result' = Ret("handleSave", "", selectedWidget[1].id, FALSE, "void")
    /\ UNCHANGED <<mockDataCache, now, env, selectedWidget, dashboardTitle, error,
                   selectedUser, loads, appStatus, storage, dataManager>>

\* onClose: setIsConfigOpen(false)
CloseConfigPanel ==
    /\ Running
    /\ configPanel # <<>>
    /\ isConfigOpen' = FALSE
    /\ configPanel' = <<>>
    /\ result' = Ret("closeConfigPanel", "", 0, FALSE, "void")
    /\ UNCHANGED <<mockDataCache, now, env, widgets, selectedWidget, dashboardTitle,
                   error, selectedUser, loads, appStatus, storage, timers,
                   isLoading, timer, dataManager>>

\* DataManager: onChange of the quantity input and of the unit price input:
\* parseInt(e.target.value) || 1 and parseFloat(e.target.value) || 0
quantityOnChange(value) == OrElse(parseInt(value), 1)

unitPriceOnChange(value) == OrElse(parseFloat(value), 0)

----------------------------------------------------------------------------
(* App: the user dashboard.  Numbers are written as en-US text.             *)

\* a decimal numeral of `digits` digits, zeros in front
RECURSIVE Digits(_, _)
Digits(n, digits) ==
    IF digits = 0 THEN ""
    ELSE Digits(n \div 10, digits - 1) \o ToString(n % 10)

\* Number.prototype.toFixed(d), d in 0..2, of a double kept as a quotient
FixedString(q, d) ==
    IF IsNaN(q) THEN "NaN"
    ELSE LET p == IF d = 0 THEN 1 ELSE IF d = 1 THEN 10 ELSE 100
             n == ToFixed([q EXCEPT !.num = Abs(q.num)], d)
         IN  (IF IsNegative(q) THEN "-" ELSE "")
                 \o ToString(n \div p)
                 \o (IF d = 0 THEN "" ELSE "." \o Digits(n % p, d))

\* q > k for a double kept as a quotient with a positive divisor
RateAbove(q, k) == q.num * q.scale > k * q.den

\* groups of three digits, with commas
RECURSIVE Grouped(_)
Grouped(n) ==
    IF n < 1000 THEN ToString(n)
    ELSE Grouped(n \div 1000) \o "," \o Digits(n % 1000, 3)

\* Number.prototype.toLocaleString() of an amount kept in halves
LocaleString(h) ==
    (IF h < 0 THEN "-" ELSE "") \o Grouped(Abs(h) \div 2)
        \o (IF Abs(h) % 2 = 1 THEN ".5" ELSE "")

\* Math.round of a double kept as a quotient; NaN stays NaN
RoundQuotient(q) ==
    IF IsNaN(q) THEN NaNNumber
    ELSE (2 * q.num * q.scale + q.den) \div (2 * q.den)

MonthNames ==
    <<"Jan", "Feb", "Mar", "Apr", "May", "Jun",
      "Jul", "Aug", "Sep", "Oct", "Nov", "Dec">>

\* the text of a month label: 'Dec 24'
LabelText(label) == MonthNames[label.m] \o " " \o Digits(label.yy, 2)

\* `mock-${userId}-${n}`
IdText(id) == "mock-" \o id.user \o "-" \o ToString(id.n)

\* status.charAt(0).toUpperCase() + status.slice(1)
Capitalized(status) ==
    CASE status = "completed" -> "Completed"
      [] status = "pending"   -> "Pending"
      [] status = "cancelled" -> "Cancelled"

\* getTopProducts(userId, limit = 5)
DefaultLimit == 5

\* getRecentOrders(userId, limit = 10)
DefaultRecentLimit == 10

\* the data of the nine widgets of a user dashboard, by the name of the
\* widget, as loadUserDashboard and updateWidgetsWithSalesData build it
\* from what the five reads returned; `threw`: the row of an order reads
\* order.totalAmount, which no record has, and calls toLocaleString on it
WidgetData(metrics, byMonth, byRegion, topProducts, recentOrders) ==
    LET thousands    == [num |-> metrics.totalRevenue, den |-> 2000, scale |-> 1]
        average      == [metrics.averageOrderValue EXCEPT !.den = 2 * @]
    IN  [threw |-> recentOrders # <<>>,
         data  |->
          [salesRevenue |->
              [value  |-> "$" \o FixedString(thousands, 1) \o "K",
               change |-> (IF IsPositive(metrics.growthRate) THEN "+" ELSE "")
                              \o FixedString(metrics.growthRate, 1) \o "%",
               trend  |-> IF IsPositive(metrics.growthRate) THEN "up"
                          ELSE IF IsNegative(metrics.growthRate) THEN "down"
                          ELSE "neutral"],
           totalOrders |->
              [value  |-> ToString(metrics.totalOrders),
               change |-> FixedString(metrics.completionRate, 1) \o "% completed",
               trend  |-> IF IsNaN(metrics.completionRate) THEN "down"
                          ELSE IF RateAbove(metrics.completionRate, 80) THEN "up"
                          ELSE IF RateAbove(metrics.completionRate, 60) THEN "neutral"
                          ELSE "down"],
           avgOrderValue |->
              [value  |-> "$" \o FixedString(average, 0),
               change |-> "Top: " \o metrics.topProduct,
               trend  |-> "up"],
           revenueChart |->
              [labels |-> [i \in 1..Len(byMonth.labels) |-> LabelText(byMonth.labels[i])],
               values |-> byMonth.values],
           regionChart |-> byRegion,
           recentOrders |->
              [headers |-> <<"Order ID", "Customer", "Product", "Amount", "Status">>,
               rows    |-> <<>>],
           topProducts |->
              [headers |-> <<"Product", "Revenue", "Orders">>,
               rows    |-> [i \in 1..Len(topProducts) |->
                              <<topProducts[i].product,
                                "$" \o LocaleString(topProducts[i].revenue),
                                ToString(topProducts[i].orders)>>]],
           completionRate |->
              [current |-> RoundQuotient(metrics.completionRate),
               target  |-> 100,
               label   |-> "Order Completion Rate"],
           revenueGoal |->
              [current |-> RoundQuotient(thousands),
               target  |-> 500,
               label   |-> "Monthly Revenue Goal (K)"]]]

\* the five reads of a dashboard: metrics, revenueByMonth, revenueByRegion,
\* topProducts, and recentOrders.slice(0, 8)
DashboardData(salesData, t, e) ==
    WidgetData(getMetrics(salesData, t),
               getRevenueByMonth(salesData, e),
               getRevenueByRegion(salesData),
               getTopProducts(salesData, DefaultLimit),
               SliceFront(getRecentOrders(salesData, DefaultRecentLimit), 8))

\* getMockUsers(): the names of the first two users
UserName(userId) ==
    CASE userId = "1" -> "John Smith"
      [] userId = "2" -> "Sarah Johnson"

Widget(id, type, title, x, y, width, height, data, config) ==
    [id       |-> id,
     type     |-> type,
     title    |-> title,
     position |-> [x |-> x, y |-> y],
     size     |-> [width |-> width, height |-> height],
     data     |-> data,
     config   |-> config]

\* const salesWidgets: Widget[] = [...] of loadUserDashboard
salesWidgets(userId, d) ==
    <<Widget("sales-revenue-" \o userId, "metric", "Total Revenue",
             0, 0, 300, 150, d.salesRevenue, [color |-> "#10B981"]),
      Widget("total-orders-" \o userId, "metric", "Total Orders",
             320, 0, 280, 150, d.totalOrders, [color |-> "#3B82F6"]),
      Widget("avg-order-value-" \o userId, "metric", "Avg Order Value",
             620, 0, 300, 150, d.avgOrderValue, [color |-> "#F59E0B"]),
      Widget("revenue-chart-" \o userId, "chart", "Revenue by Month",
             0, 170, 450, 300, d.revenueChart,
             [chartType |-> "line", color |-> "#3B82F6"]),
      Widget("region-chart-" \o userId, "chart", "Revenue by Region",
             470, 170, 450, 300, d.regionChart,
             [chartType |-> "bar", color |-> "#10B981"]),
      Widget("recent-orders-" \o userId, "table", "Recent Orders",
             0, 490, 600, 280, d.recentOrders, <<>>),
      Widget("top-products-" \o userId, "table", "Top Products",
             620, 490, 400, 280, d.topProducts, <<>>),
      Widget("completion-rate-" \o userId, "progress", "Order Completion Rate",
             940, 0, 280, 200, d.completionRate, [color |-> "#10B981"]),
      Widget("revenue-goal-" \o userId, "progress", "Revenue Goal",
             940, 220, 280, 200, d.revenueGoal, [color |-> "#F59E0B"])>>

\* the switch of updateWidgetsWithSalesData: the widget whose id is one
\* of the nine names gets the data of that name, any other widget stays
WithSalesData(widget, d) ==
    CASE widget.id = "sales-revenue"   -> Merge(widget, [data |-> d.salesRevenue])
      [] widget.id = "total-orders"    -> Merge(widget, [data |-> d.totalOrders])
      [] widget.id = "avg-order-value" -> Merge(widget, [data |-> d.avgOrderValue])
      [] widget.id = "revenue-chart"   -> Merge(widget, [data |-> d.revenueChart])
      [] widget.id = "region-chart"    -> Merge(widget, [data |-> d.regionChart])
      [] widget.id = "recent-orders"   -> Merge(widget, [data |-> d.recentOrders])
      [] widget.id = "top-products"    -> Merge(widget, [data |-> d.topProducts])
      [] widget.id = "completion-rate" -> Merge(widget, [data |-> d.completionRate])
      [] widget.id = "revenue-goal"    -> Merge(widget, [data |-> d.revenueGoal])
      [] OTHER                         -> widget

\* setWidgets(prevWidgets => prevWidgets.map(...)); the rows of the orders
\* are built, and throw, only for a widget with the id 'recent-orders'
updateWidgetsWithSalesData(prev, dashboard) ==
    [threw   |-> dashboard.threw
                 /\ \E i \in 1..Len(prev) : prev[i].id = "recent-orders",
     widgets |-> [i \in 1..Len(prev) |-> WithSalesData(prev[i], dashboard.data)]]

\* the end of loadUserDashboard(): setWidgets and setDashboardTitle, or
\* the catch block
SetUserDashboard(userId, dashboard) ==
    /\ IF dashboard.threw
       THEN /\ error' = "Failed to load user dashboard data."
            /\ UNCHANGED <<widgets, dashboardTitle, timers, isLoading, timer>>
       ELSE /\ widgets' = salesWidgets(userId, dashboard.data)
            /\ dashboardTitle' = UserName(userId) \o "'s Dashboard"
            /\ timers' = SaveEffect(timers, widgets', dashboardTitle')
            /\ AutoSaveEffect(widgets')
            /\ UNCHANGED error
    /\ result' = Ret("loadUserDashboard", userId, 0, dashboard.threw, "void")

\* loadUserDashboard() of a user, once its five reads have returned: from
\* the rows of the remote table when the remote collaborator answers, and
\* else from the cached or generated records
LoadUserDashboard(P, userId) ==
    IF P.supabase = "reachable"
    THEN /\ UNCHANGED mockDataCache
         /\ SetUserDashboard(userId, DashboardData(P.salesRecords[userId], now, env))
    ELSE \E salesData \in Fetched(P, userId) :
             /\ mockDataCache' = CacheSet(mockDataCache, userId, salesData)
             /\ SetUserDashboard(userId, DashboardData(salesData, now, env))

\* UserSelector: onUserSelect(user) is setSelectedUser, and the effect on
\* selectedUser starts loadUserDashboard.  Without a remote collaborator
\* every await of the load is on a resolved promise, and the load is over
\* before the next event; with one, the load is in flight
SelectUser(P) ==
    \E userId \in P.users :
        /\ Running
        /\ userId # selectedUser
        \* the data manager is a dialog over the whole page
        /\ dataManager = <<>>
        /\ Len(timers) < P.maxTimers
        /\ Len(loads) < P.maxLoads
        /\ selectedUser' = userId
        /\ IF P.supabase = "null"
           THEN /\ LoadUserDashboard(P, userId)
                /\ UNCHANGED loads
           ELSE /\ loads' = Append(loads, userId)
                /\ result' = Ret("selectUser", userId, 0, FALSE, "void")
                /\ UNCHANGED <<mockDataCache, widgets, dashboardTitle, error, timers,
                               isLoading, timer>>
        /\ UNCHANGED <<now, env, selectedWidget, isConfigOpen, appStatus, storage,
                       configPanel, dataManager>>

\* (mutant) the result of a load is dropped when its user is no longer the
\* selected one
CompleteLoadOfSelected(P) ==
    \E i \in 1..Len(loads) :
        /\ Running
        /\ Len(timers) < P.maxTimers
        /\ IF loads[i] = selectedUser
           THEN LoadUserDashboard(P, loads[i])
           ELSE /\ result' = Ret("loadUserDashboard", loads[i], 0, FALSE, "void")
                /\ UNCHANGED <<mockDataCache, widgets, dashboardTitle, error, timers,
                               isLoading, timer>>
        /\ loads' = RemoveAt(loads, i)
        /\ UNCHANGED <<now, env, selectedWidget, isConfigOpen, selectedUser,
                       appStatus, storage, configPanel, dataManager>>

\* a load in flight returns, in whatever order the remote calls end
CompleteLoad(P) ==
    \E i \in 1..Len(loads) :
        /\ Running
        /\ Len(timers) < P.maxTimers
        /\ LoadUserDashboard(P, loads[i])
        /\ loads' = RemoveAt(loads, i)
        /\ UNCHANGED <<now, env, selectedWidget, isConfigOpen, selectedUser,
                       appStatus, storage, configPanel, dataManager>>

\* setWidgets(prevWidgets => ...) of updateWidgetsWithSalesData; an
\* exception in the updater unmounts the application and all it renders
SetUpdatedWidgets(updated) ==
    IF updated.threw
    THEN /\ appStatus' = "crashed"
         /\ isLoading' = FALSE
         /\ timer' = FALSE
         /\ configPanel' = <<>>
         /\ UNCHANGED <<widgets, timers>>
    ELSE /\ widgets' = updated.widgets
         /\ timers' = SaveEffect(timers, widgets', dashboardTitle)
         /\ AutoSaveEffect(widgets')
         /\ UNCHANGED <<appStatus, configPanel>>

\* handleDataUpdate(): updateWidgetsWithSalesData for the selected user
HandleDataUpdate(salesData) ==
    SetUpdatedWidgets(updateWidgetsWithSalesData(widgets,
                          DashboardData(salesData, now, env)))

----------------------------------------------------------------------------
(* DataManager: the dialog of the records of the selected user.  Its       *)
(* salesData is the array getSalesData returns, which is the array of the   *)
(* cache itself: the state holds the same array until the cache is given a  *)
(* new one.  With a remote collaborator that cannot be reached,             *)
(* addSalesRecord, updateSalesRecord and deleteSalesRecord throw the error  *)
(* of the call.                                                             *)

\* String.prototype.toLowerCase, on the names of the filtered records
ToLowerCase(text) ==
    CASE text = "Acme Corp"     -> "acme corp"
      [] text = "TechStart Inc" -> "techstart inc"
      [] text = "Mobile App"    -> "mobile app"
      [] OTHER                  -> text

\* text.toLowerCase().includes(term.toLowerCase()); the search terms of the
\* model are whole names, and no name of the model is a part of another
Includes(text, term) == ToLowerCase(text) = ToLowerCase(term)

\* applyFilters(): the rows the table shows
applyFilters(salesData, searchTerm, statusFilter) ==
    SelectSeq(salesData,
              LAMBDA record :
                  /\ searchTerm # "" =>
                         \/ Includes(record.customer, searchTerm)
                         \/ Includes(record.product, searchTerm)
                  /\ statusFilter # "all" => record.status = statusFilter)

\* the state of a data manager: the rows of its last applyFilters, the
\* search term and the status filter
DataManagerState(filteredData, searchTerm, statusFilter) ==
    [filteredData |-> filteredData,
     searchTerm   |-> searchTerm,
     statusFilter |-> statusFilter]

\* useEffect(applyFilters, [salesData, searchTerm, statusFilter]) after a
\* render in which one of the three is a new value
Filtered(state, salesData) ==
    <<DataManagerState(applyFilters(salesData, state.searchTerm, state.statusFilter),
                       state.searchTerm, state.statusFilter)>>

\* Header: onManageData, which renders the data manager; its first effects
\* are loadSalesData and applyFilters
OpenDataManager(P) ==
    \E salesData \in Fetched(P, selectedUser) :
        /\ Running
        /\ selectedUser # ""
        /\ dataManager = <<>>
        /\ mockDataCache' = CacheSet(mockDataCache, selectedUser, salesData)
        /\ dataManager' = Filtered(DataManagerState(<<>>, "", "all"), salesData)
        /\ result' = Ret("loadSalesData", selectedUser, 0, FALSE, salesData)
        /\ UNCHANGED <<now, env, widgets, selectedWidget, isConfigOpen,
                       dashboardTitle, error, selectedUser, loads, appStatus,
                       storage, timers, isLoading, timer, configPanel>>

\* onClose: setIsDataManagerOpen(false)
CloseDataManager ==
    /\ Running
    /\ dataManager # <<>>
    /\ dataManager' = <<>>
    /\ result' = Ret("closeDataManager", selectedUser, 0, FALSE, "void")
    /\ UNCHANGED <<mockDataCache, now, env, widgets, selectedWidget, isConfigOpen,
                   dashboardTitle, error, selectedUser, loads, appStatus,
                   storage, timers, isLoading, timer, configPanel>>

\* setSearchTerm(e.target.value) and setStatusFilter(e.target.value); a
\* value that is the one of the state does not render again
SetFilter(P) ==
    \E searchTerm \in P.searchTerms : \E statusFilter \in P.statusFilters :
        /\ Running
        /\ dataManager # <<>>
        \* one of the two is changed
        /\ (searchTerm = dataManager[1].searchTerm)
               # (statusFilter = dataManager[1].statusFilter)
        /\ dataManager' =
               Filtered(DataManagerState(<<>>, searchTerm, statusFilter),
                        mockDataCache[selectedUser])
        /\ result' = Ret("applyFilters", selectedUser,
                         <<searchTerm, statusFilter>>, FALSE, "void")
        /\ UNCHANGED <<mockDataCache, now, env, widgets, selectedWidget, isConfigOpen,
                       dashboardTitle, error, selectedUser, loads, appStatus,
                       storage, timers, isLoading, timer, configPanel>>

\* the rows of the table
Rows == IF dataManager = <<>> THEN <<>> ELSE dataManager[1].filteredData

\* deleteSalesRecord(id) without a remote collaborator: the first array of
\* the cache that holds the id loses that record, in place
deleteSalesRecord(cache, id) ==
    IF \E u \in DOMAIN cache : findIndex(cache[u], id) # 0
    THEN LET userId == CHOOSE u \in DOMAIN cache : findIndex(cache[u], id) # 0
         IN  CacheSet(cache, userId,
                      RemoveAt(cache[userId], findIndex(cache[userId], id)))
    ELSE cache

\* what the handler leaves alone when its call has thrown: the catch block
\* writes to the console
Logged(op, userId, arg) ==
    /\ result' = Ret(op, userId, arg, TRUE, "console.error")
    /\ UNCHANGED <<mockDataCache, widgets, timers, appStatus, isLoading, timer,
                   configPanel, dataManager>>

\* the data manager after a handler's loadSalesData(): setSalesData(data)
\* renders again, and applyFilters runs, only when data is another array
\* than the one of the state
AfterLoadSalesData(isNewArray, salesData) ==
    IF appStatus' = "crashed" THEN <<>>
    ELSE IF isNewArray THEN Filtered(dataManager[1], salesData)
    ELSE dataManager

\* (mutant) the total of the record is left as it was
handleUpdateRecordUpdatesKeepTotal(editingRecord) == editingRecord

\* const updates = { ...editingRecord, total_amount: quantity * unit_price }
handleUpdateRecordUpdates(editingRecord) ==
    Merge(editingRecord,
          [total_amount |-> editingRecord.quantity * editingRecord.unit_price])

\* const recordToAdd = { ...newRecord, user_id, total_amount }
handleAddRecordToAdd(newRecord, userId) ==
    Merge(newRecord,
          [user_id      |-> userId,
           total_amount |-> newRecord.quantity * newRecord.unit_price])

\* addSalesRecord puts a new array in the cache
HandleAddRecord(P) ==
    \E newRecord \in P.forms : \E existingData \in Fetched(P, selectedUser) :
        LET recordToAdd == handleAddRecordToAdd(newRecord, selectedUser)
            maxId       == MaxIdFrom(existingData, 1, 0)
            added       == Merge([id |-> MockId(selectedUser, maxId + 1)], recordToAdd)
            updatedData == <<added>> \o existingData
        IN  /\ Running
            /\ dataManager # <<>>
            /\ Len(existingData) < P.cap
            /\ maxId < P.cap
            /\ Len(timers) < P.maxTimers
            /\ IF P.supabase = "null"
               THEN /\ mockDataCache' = CacheSet(mockDataCache, selectedUser, updatedData)
                    /\ HandleDataUpdate(updatedData)
                    /\ dataManager' = AfterLoadSalesData(TRUE, updatedData)
                    /\ result' = Ret("handleAddRecord", selectedUser, recordToAdd,
                                     FALSE, added)
               ELSE Logged("handleAddRecord", selectedUser, recordToAdd)
            /\ UNCHANGED <<now, env, selectedWidget, isConfigOpen, dashboardTitle,
                           error, selectedUser, loads, storage>>

\* setEditingRecord(record) on a row of the table, the edits of the fields
\* of the form, then handleUpdateRecord; updateSalesRecord changes the array
\* of the cache in place, and throws for a row that is no longer a record
HandleUpdateRecord(P) ==
    \E edits \in P.edits : \E row \in 1..Len(Rows) :
        LET editingRecord == Merge(Rows[row], edits)
            updates       == handleUpdateRecordUpdates(editingRecord)
            userId        == updates.user_id
            existingData  == mockDataCache[userId]
            recordIndex   == IF userId \in DOMAIN mockDataCache
                             THEN findIndex(existingData, editingRecord.id) ELSE 0
        IN  /\ Running
            /\ dataManager # <<>>
            /\ Len(timers) < P.maxTimers
            /\ IF P.supabase = "null" /\ recordIndex # 0
               THEN LET updatedRecord == Merge(existingData[recordIndex], updates)
                        updatedData   ==
                            [existingData EXCEPT ![recordIndex] = updatedRecord]
                    IN  /\ mockDataCache' = CacheSet(mockDataCache, userId, updatedData)
                        /\ HandleDataUpdate(updatedData)
                        /\ dataManager' = AfterLoadSalesData(FALSE, updatedData)
                        /\ result' = Ret("handleUpdateRecord", selectedUser, updates,
                                         FALSE, updatedRecord)
               ELSE Logged("handleUpdateRecord", selectedUser, updates)
            /\ UNCHANGED <<now, env, selectedWidget, isConfigOpen, dashboardTitle,
                           error, selectedUser, loads, storage>>

\* handleDeleteRecord(record.id) on a row of the table, confirm() answered
\* with OK; deleteSalesRecord splices the array of the cache in place, and
\* does nothing for a row that is no longer a record
HandleDeleteRecord(P) ==
    \E row \in 1..Len(Rows) :
        LET id == Rows[row].id
        IN  /\ Running
            /\ dataManager # <<>>
            /\ Len(timers) < P.maxTimers
            /\ IF P.supabase = "null"
               THEN /\ mockDataCache' = deleteSalesRecord(mockDataCache, id)
                    /\ HandleDataUpdate(mockDataCache'[selectedUser])
                    /\ dataManager' =
                           AfterLoadSalesData(FALSE, mockDataCache'[selectedUser])
                    /\ result' = Ret("handleDeleteRecord", selectedUser, id,
                                     FALSE, "void")
               ELSE Logged("handleDeleteRecord", selectedUser, id)
            /\ UNCHANGED <<now, env, selectedWidget, isConfigOpen, dashboardTitle,
                           error, selectedUser, loads, storage>>

\* the state before the first render, with the storage a browser may hold
StoreInit(P) ==
    /\ mockDataCache = <<>>
    /\ now \in P.nows
    /\ env \in P.envs
    /\ result = Ret("none", "", 0, FALSE, "void")
    /\ AppConstructed
    /\ storage \in P.stored

----------------------------------------------------------------------------
(* Input sets.  A profile names the values the random generator and the     *)
(* callers draw from; the specifications below differ only in the profile   *)
(* and in the read operations they exercise.                                *)

\* one draw of the generator's random numbers for one record
DrawsOver(daysAgo, customers, products, regions, statuses, quantities, prices) ==
    [daysAgo : daysAgo, customer : customers, product : products,
     region : regions, status : statuses, quantity : quantities,
     unitPrice : prices]

\* the records the data manager's forms submit: total_amount is
\* quantity * unit_price (handleAddRecord, handleUpdateRecord)
FormRecords(users, days, customers, products, regions, statuses, quantities, prices) ==
    {[user_id |-> u, date |-> d, customer |-> c, product |-> p, region |-> r,
      status |-> s, quantity |-> q, unit_price |-> up, total_amount |-> q * up] :
        u \in users, d \in days, c \in customers, p \in products, r \in regions,
        s \in statuses, q \in quantities, up \in prices}

IdsOver(users, cap) == {MockId(u, n) : u \in users, n \in 0..cap}

Statuses == {"completed", "pending", "cancelled"}

\* 2025-01-15, at midnight UTC
Jan15 == DaysFromCivil(2025, 1, 15)

Chrome == [dateParser |-> "monthDay", tzWest |-> FALSE]

----------------------------------------------------------------------------
(* Totals: records differ in status and amount only *)

PTotals ==
    [users      |-> {"1"},
     draws      |-> [1..recordCount ->
                        DrawsOver({0}, {"Acme Corp"}, {"Mobile App"}, {"Europe"},
                                  {"completed", "pending"}, {1, 2}, {100})],
     newRecords |-> FormRecords({"1"}, {Jan15}, {"Acme Corp"}, {"Mobile App"},
                                {"Europe"}, {"completed", "pending"}, {1, 2}, {100}),
     updates    |-> FormRecords({"1"}, {Jan15}, {"Acme Corp"}, {"Mobile App"},
                                {"Europe"}, {"completed", "cancelled"}, {2}, {100})
                    \cup {[status |-> "cancelled"]},
     updateIds  |-> IdsOver({"1"}, recordCount + 1),
     deleteIds  |-> IdsOver({"1"}, recordCount + 1),
     cap        |-> recordCount + 1,
     limits     |-> {DefaultLimit},
     nows       |-> {DateTime(Jan15)},
     envs       |-> {Chrome}]

InitTotals == DataInit(PTotals)

NextTotals ==
    \/ GetSalesData(PTotals)
    \/ AddSalesRecord(PTotals)
    \/ UpdateSalesRecord(PTotals)
    \/ DeleteSalesRecord(PTotals)
    \/ GetMetrics(PTotals)
    \/ GetRevenueByMonth(PTotals)
    \/ GetRevenueByRegion(PTotals)
    \/ GetTopProducts(PTotals)
    \/ ViewerLoadData(PTotals)

SpecTotals == InitTotals /\ [][NextTotals]_vars

----------------------------------------------------------------------------
(* Top product and region: records differ in product, region and status.    *)
(* The generator draws from its vocabularies; the forms accept any text as  *)
(* product, here a numeric name ("365") and, in the edit form, none ("").   *)

PTop ==
    [users      |-> {"1"},
     draws      |-> [1..recordCount ->
                        DrawsOver({0}, {"Acme Corp"}, {"Mobile App", "API Access"},
                                  {"Europe", "Asia Pacific"}, {"completed"},
                                  {1}, {100})],
     newRecords |-> FormRecords({"1"}, {Jan15}, {"Acme Corp"}, {"API Access"},
                                {"Europe"}, {"completed", "pending"}, {1}, {100}),
     updates    |-> {[user_id |-> "1", product |-> "365"],
                     [user_id |-> "1", product |-> ""],
                     [user_id |-> "1", status |-> "cancelled"]},
     updateIds  |-> {MockId("1", 0), MockId("1", recordCount + 2)},
     deleteIds  |-> IdsOver({"1"}, recordCount + 1),
     cap        |-> recordCount + 1,
     limits     |-> {0, 1, 2, DefaultLimit},
     nows       |-> {DateTime(Jan15)},
     envs       |-> {Chrome}]

InitTop == DataInit(PTop)

NextTop ==
    \/ GetSalesData(PTop)
    \/ AddSalesRecord(PTop)
    \/ UpdateSalesRecord(PTop)
    \/ DeleteSalesRecord(PTop)
    \/ GetMetrics(PTop)
    \/ GetTopProducts(PTop)

SpecTop == InitTop /\ [][NextTop]_vars

----------------------------------------------------------------------------
(* Averages: completed records that differ in amount, enough of them for    *)
(* the division by their count to be inexact.                               *)

\* records generated per user in this profile
avgRecordCount == 6

\* the generator's draws: k orders of one unit then orders of three, all
\* completed, or every order pending
AvgDraw(status, quantity) ==
    [daysAgo |-> 0, customer |-> "Acme Corp", product |-> "Mobile App",
     region |-> "Europe", status |-> status, quantity |-> quantity,
     unitPrice |-> 100]

AvgDraws ==
    {[i \in 1..avgRecordCount |->
         AvgDraw("completed", IF i <= k THEN 1 ELSE 3)] : k \in 0..avgRecordCount}
    \cup {[i \in 1..avgRecordCount |-> AvgDraw("pending", 1)]}

PAvg ==
    [users      |-> {"1"},
     draws      |-> AvgDraws,
     newRecords |-> FormRecords({"1"}, {Jan15}, {"Acme Corp"}, {"Mobile App"},
                                {"Europe"}, {"completed", "pending"}, {1, 3}, {100}),
     updates    |-> {[user_id |-> "1", status |-> "cancelled"]},
     updateIds  |-> {MockId("1", 0), MockId("1", avgRecordCount + 2)},
     deleteIds  |-> {MockId("1", 0), MockId("1", 1)},
     cap        |-> avgRecordCount + 1,
     limits     |-> {DefaultLimit},
     nows       |-> {DateTime(Jan15)},
     envs       |-> {Chrome}]

InitAvg == DataInit(PAvg)

NextAvg ==
    \/ GetSalesData(PAvg)
    \/ AddSalesRecord(PAvg)
    \/ UpdateSalesRecord(PAvg)
    \/ DeleteSalesRecord(PAvg)
    \/ GetMetrics(PAvg)

SpecAvg == InitAvg /\ [][NextAvg]_vars

----------------------------------------------------------------------------
(* Growth: records on both sides of the two window boundaries, a clock at   *)
(* midnight and later in the day, and a form that submits tomorrow's date.  *)

PGrowth ==
    [users      |-> {"1"},
     draws      |-> [1..recordCount ->
                        DrawsOver({0, 30, 31, 60, 61}, {"Acme Corp"}, {"Mobile App"},
                                  {"Europe"}, {"completed"}, {1}, {100})],
     newRecords |-> FormRecords({"1"}, {Jan15 + 1, Jan15 - 30}, {"Acme Corp"},
                                {"Mobile App"}, {"Europe"}, {"completed", "pending"},
                                {2}, {100}),
     updates    |-> {[user_id |-> "1", date |-> Jan15 + 1],
                     [user_id |-> "1", status |-> "cancelled"]},
     updateIds  |-> {MockId("1", 0), MockId("1", recordCount + 2)},
     deleteIds  |-> {MockId("1", 0)},
     cap        |-> recordCount + 1,
     limits     |-> {DefaultLimit},
     nows       |-> {DateTime(Jan15), DateTime(Jan15) + 1},
     envs       |-> {Chrome}]

InitGrowth == DataInit(PGrowth)

NextGrowth ==
    \/ GetSalesData(PGrowth)
    \/ AddSalesRecord(PGrowth)
    \/ UpdateSalesRecord(PGrowth)
    \/ DeleteSalesRecord(PGrowth)
    \/ GetMetrics(PGrowth)

SpecGrowth == InitGrowth /\ [][NextGrowth]_vars

----------------------------------------------------------------------------
(* Months: generated records from January 2025 back to October 2024, form   *)
(* records in three earlier months, on hosts that differ in how they parse  *)
(* a month label and in their time zone.                                    *)

\* records generated per user in this profile
monthRecordCount == 4

\* the generator's draws: the first k orders a month apart (its range is
\* 0..119 days back), the others today
MonthDraws ==
    {[i \in 1..monthRecordCount |->
         [daysAgo |-> IF i <= k THEN (IF 30 * (i - 1) > 119 THEN 119 ELSE 30 * (i - 1))
                      ELSE 0,
          customer |-> "Acme Corp", product |-> "Mobile App", region |-> "Europe",
          status |-> "completed", quantity |-> 1, unitPrice |-> 100]] :
        k \in 1..monthRecordCount}

\* dates the form submits, in three earlier months
MonthFormDates ==
    {DaysFromCivil(2024, 9, 1), DaysFromCivil(2024, 8, 15), DaysFromCivil(2024, 7, 15)}

PMonth ==
    [users      |-> {"1"},
     draws      |-> MonthDraws,
     newRecords |-> FormRecords({"1"}, MonthFormDates, {"Acme Corp"}, {"Mobile App"},
                                {"Europe"}, {"completed", "pending"}, {1}, {101}),
     updates    |-> {},
     updateIds  |-> {},
     deleteIds  |-> {},
     cap        |-> monthRecordCount + Cardinality(MonthFormDates),
     limits     |-> {DefaultLimit},
     nows       |-> {DateTime(Jan15)},
     envs       |-> {Chrome,
                     [dateParser |-> "invalid", tzWest |-> FALSE],
                     [dateParser |-> "monthDay", tzWest |-> TRUE]}]

InitMonth == DataInit(PMonth)

NextMonth ==
    \/ GetSalesData(PMonth)
    \/ AddSalesRecord(PMonth)
    \/ GetRevenueByMonth(PMonth)

SpecMonth == InitMonth /\ [][NextMonth]_vars

----------------------------------------------------------------------------
(* Recent orders: generated records of different dates, a form that adds    *)
(* an order dated before them and after them, and an edit of a date.        *)

PRecent ==
    [users      |-> {"1"},
     draws      |-> [1..recordCount ->
                        DrawsOver({0, 5, 10}, {"Acme Corp"}, {"Mobile App"},
                                  {"Europe"}, {"completed", "pending"}, {1}, {100})],
     newRecords |-> FormRecords({"1"}, {Jan15 - 20, Jan15}, {"Acme Corp"},
                                {"Mobile App"}, {"Europe"}, {"completed"}, {2}, {100}),
     updates    |-> {[user_id |-> "1", date |-> Jan15 - 40],
                     [user_id |-> "1", status |-> "cancelled"]},
     updateIds  |-> {MockId("1", 0), MockId("1", recordCount + 2)},
     deleteIds  |-> IdsOver({"1"}, recordCount + 1),
     cap        |-> recordCount + 1,
     limits     |-> {0, 1, 2, DefaultRecentLimit},
     nows       |-> {DateTime(Jan15)},
     envs       |-> {Chrome}]

InitRecent == DataInit(PRecent)

NextRecent ==
    \/ GetSalesData(PRecent)
    \/ AddSalesRecord(PRecent)
    \/ UpdateSalesRecord(PRecent)
    \/ DeleteSalesRecord(PRecent)
    \/ GetRecentOrders(PRecent)

SpecRecent == InitRecent /\ [][NextRecent]_vars

----------------------------------------------------------------------------
(* Widgets: every widget type, a collection of up to MaxWidgets.            *)

MaxWidgets == 3

\* a snapshot of an empty dashboard
EmptySnapshot ==
    JSONStringify([title |-> "Sales Dashboard", widgets |-> <<>>,
                   lastModified |-> DateTime(Jan15)])

\* the storage of the browser is full: every save fails with the banner
PWidgets ==
    [types         |-> WidgetTypes,
     ids           |-> {ToString(i) : i \in 1..MaxWidgets},
     cap           |-> MaxWidgets,
     maxTimers     |-> 1,
     quota         |-> {TRUE},
     stored        |-> {<<EmptySnapshot>>},
     nows          |-> {DateTime(Jan15)},
     envs          |-> {Chrome}]

InitWidgets == StoreInit(PWidgets)

NextWidgets ==
    \/ Mount(PWidgets)
    \/ AddWidget(PWidgets)
    \/ DeleteWidget(PWidgets)
    \/ HandleWidgetSelect
    \/ ClearDashboard(PWidgets)
    \/ SaveDashboard(PWidgets)

SpecWidgets == InitWidgets /\ [][NextWidgets]_vars

----------------------------------------------------------------------------
(* Layout: the collection and its snapshot; progress widgets, a title that *)
(* is edited, files that are imported, saves that succeed.                  *)

layoutWidgets == 2

\* a file that is not JSON
GarbageFile == [kind |-> "text"]

\* a JSON file that is not a layout
InvalidFile == [kind |-> "json", doc |-> [title |-> "Broken"]]

\* a layout edited by hand: one widget copied, id included
DuplicateFile ==
    LET w == addWidget(<<>>, "progress", "1")[1]
    IN  JSONStringify([title |-> "Sales Dashboard", widgets |-> <<w, w>>,
                       lastModified |-> DateTime(Jan15)])

\* a drag, and what the configuration panel sends for a width field that
\* was cleared: size: { ...widget.size, width: parseInt('') }
LayoutUpdates ==
    {[position |-> [x |-> 120, y |-> 80]],
     [size |-> [width |-> NaNNumber, height |-> 200]]}

PLayout ==
    [types         |-> {"progress"},
     ids           |-> {ToString(i) : i \in 1..layoutWidgets},
     cap           |-> layoutWidgets,
     widgetUpdates |-> LayoutUpdates,
     titles        |-> {"User Dashboard"},
     files         |-> {DuplicateFile},
     maxTimers     |-> 2,
     quota         |-> {FALSE},
     stored        |-> {<<>>, <<GarbageFile>>, <<InvalidFile>>, <<EmptySnapshot>>},
     nows          |-> {DateTime(Jan15)},
     envs          |-> {Chrome}]

InitLayout == StoreInit(PLayout)

NextLayout ==
    \/ Mount(PLayout)
    \/ AddWidget(PLayout)
    \/ UpdateWidget(PLayout)
    \/ DeleteWidget(PLayout)
    \/ ClearDashboard(PLayout)
    \/ SetDashboardTitle(PLayout)
    \/ SaveDashboard(PLayout)
    \/ HandleImport(PLayout)
    \/ Reload

SpecLayout == InitLayout /\ [][NextLayout]_vars

----------------------------------------------------------------------------
(* Manager: the data manager of a selected user, without a remote           *)
(* collaborator; records differ in quantity and price.                      *)

\* the generated records of a user are alike
ManagerDraws ==
    {[i \in 1..recordCount |-> d] :
        d \in DrawsOver({0}, {"Acme Corp"}, {"Mobile App"}, {"Europe"},
                        {"completed"}, {3}, {100})}

\* the values of the form for a new record, as its fields parse them
ManagerForms ==
    {[date |-> Jan15, customer |-> "Acme Corp", product |-> "Mobile App",
      region |-> "Europe", status |-> "completed",
      quantity |-> q, unit_price |-> up] : q \in {2}, up \in {150}}

\* the fields changed in the form of a record
ManagerEdits == {[quantity |-> 5], [unit_price |-> 0, status |-> "pending"]}

PManager ==
    [users     |-> {"1"},
     supabase  |-> "null",
     draws     |-> ManagerDraws,
     forms     |-> ManagerForms,
     edits     |-> ManagerEdits,
     cap       |-> recordCount + 1,
     maxTimers |-> 1,
     maxLoads  |-> 2,
     quota     |-> {FALSE},
     stored    |-> {<<EmptySnapshot>>},
     nows      |-> {DateTime(Jan15)},
     envs      |-> {Chrome}]

InitManager == StoreInit(PManager)

NextManager ==
    \/ Mount(PManager)
    \/ SelectUser(PManager)
    \/ OpenDataManager(PManager)
    \/ HandleAddRecord(PManager)
    \/ HandleUpdateRecord(PManager)
    \/ HandleDeleteRecord(PManager)
    \/ SaveDashboard(PManager)

SpecManager == InitManager /\ [][NextManager]_vars

----------------------------------------------------------------------------
(* Reads: two users, whose generated records differ from draw to draw.      *)

ReadsDraws ==
    {[i \in 1..recordCount |-> d] :
        d \in DrawsOver({0}, {"Acme Corp"}, {"Mobile App"}, {"Europe"},
                        {"completed"}, {1, 3}, {100})}

PReads ==
    [users      |-> {"1", "2"},
     draws      |-> ReadsDraws,
     newRecords |-> FormRecords({"1"}, {Jan15}, {"Acme Corp"}, {"Mobile App"},
                                {"Europe"}, {"completed"}, {2}, {100}),
     updates    |-> {[user_id |-> "1", status |-> "cancelled"]},
     updateIds  |-> {MockId("1", 0)},
     deleteIds  |-> {MockId("1", 0)},
     cap        |-> recordCount + 1,
     limits     |-> {DefaultLimit},
     nows       |-> {DateTime(Jan15)},
     envs       |-> {Chrome}]

InitReads == DataInit(PReads)

NextReads ==
    \/ GetSalesData(PReads)
    \/ AddSalesRecord(PReads)
    \/ UpdateSalesRecord(PReads)
    \/ DeleteSalesRecord(PReads)
    \/ GetMetrics(PReads)
    \/ GetRevenueByMonth(PReads)
    \/ GetRevenueByRegion(PReads)
    \/ GetTopProducts(PReads)
    \/ GetRecentOrders(PReads)

SpecReads == InitReads /\ [][NextReads]_vars

----------------------------------------------------------------------------
(* Remote: a remote collaborator is configured and cannot be reached, so    *)
(* that every call to it fails.                                             *)

PRemote ==
    [users     |-> {"1", "2"},
     supabase  |-> "unreachable",
     draws     |-> ReadsDraws,
     forms     |-> ManagerForms,
     edits     |-> ManagerEdits,
     limits    |-> {DefaultRecentLimit},
     cap       |-> recordCount + 1,
     maxTimers |-> 1,
     maxLoads  |-> 2,
     quota     |-> {FALSE},
     stored    |-> {<<EmptySnapshot>>},
     nows      |-> {DateTime(Jan15)},
     envs      |-> {Chrome}]

InitRemote == StoreInit(PRemote)

NextRemote ==
    \/ Mount(PRemote)
    \/ SelectUser(PRemote)
    \/ CompleteLoad(PRemote)
    \/ OpenDataManager(PRemote)
    \/ GetSalesData(PRemote)
    \/ GetRecentOrders(PRemote)
    \/ HandleAddRecord(PRemote)
    \/ HandleUpdateRecord(PRemote)
    \/ HandleDeleteRecord(PRemote)
    \/ SaveDashboard(PRemote)

SpecRemote == InitRemote /\ [][NextRemote]_vars

----------------------------------------------------------------------------
(* What the claims are stated in: the record set a result was computed     *)
(* from, and sums and counts over index sets rather than folds.             *)

\* the list the last read was computed from (reads leave it in the cache)
InputOf(r) == mockDataCache[r.user]

CompletedIdx(data) == {i \in 1..Len(data) : data[i].status = "completed"}

RECURSIVE SumOver(_, _)
SumOver(data, S) ==
    IF S = {} THEN 0
    ELSE LET i == CHOOSE j \in S : TRUE
         IN  data[i].total_amount + SumOver(data, S \ {i})

IsZero(q) == ~IsNaN(q) /\ q.num = 0

----------------------------------------------------------------------------
(* C1: getMetrics returns totalOrders = the number of all records, whatever *)
(* their status, and totalRevenue = the sum of total_amount over exactly    *)
(* the completed records (0 when every record is pending or cancelled).     *)
C1_TotalsCountAllSumCompleted ==
    result.op = "getMetrics" =>
        LET data == InputOf(result)
        IN  /\ result.out.totalOrders = Len(data)
            /\ result.out.totalRevenue = SumOver(data, CompletedIdx(data))
            /\ CompletedIdx(data) = {} => result.out.totalRevenue = 0

\* getMetrics has run on a list that holds a completed, a pending and a
\* cancelled record
C1_Witness ==
    /\ result.op = "getMetrics"
    /\ {InputOf(result)[i].status : i \in 1..Len(InputOf(result))} = Statuses
    /\ result.out.totalOrders = 3
    /\ result.out.totalRevenue > 0

----------------------------------------------------------------------------
(* C3 as stated: on an empty record set no aggregation throws and every     *)
(* returned value is a zero or a sentinel: every numeric field of           *)
(* SalesMetrics is 0, topProduct and topRegion are 'N/A', every list empty. *)
C3_EmptyAllZero ==
    (result.op \in {"getMetrics", "getRevenueByMonth", "getRevenueByRegion",
                    "getTopProducts"}
     /\ Len(InputOf(result)) = 0) =>
        /\ ~result.threw
        /\ result.op = "getMetrics" =>
              /\ result.out.totalRevenue = 0
              /\ result.out.totalOrders = 0
              /\ IsZero(result.out.averageOrderValue)
              /\ IsZero(result.out.growthRate)
              /\ IsZero(result.out.completionRate)
              /\ result.out.topProduct = "N/A"
              /\ result.out.topRegion = "N/A"
        /\ result.op \in {"getRevenueByMonth", "getRevenueByRegion"} =>
              result.out.labels = <<>> /\ result.out.values = <<>>
        /\ result.op = "getTopProducts" => result.out = <<>>

(* C3 amended: on an empty record set no aggregation throws; every numeric  *)
(* field of SalesMetrics is 0 except completionRate, which is NaN;          *)
(* topProduct and topRegion are 'N/A'; every returned list is empty.        *)
C3_EmptyZeroButRate ==
    (result.op \in {"getMetrics", "getRevenueByMonth", "getRevenueByRegion",
                    "getTopProducts"}
     /\ Len(InputOf(result)) = 0) =>
        /\ ~result.threw
        /\ result.op = "getMetrics" =>
              /\ result.out.totalRevenue = 0
              /\ result.out.totalOrders = 0
              /\ IsZero(result.out.averageOrderValue)
              /\ IsZero(result.out.growthRate)
              /\ IsNaN(result.out.completionRate)
              /\ result.out.topProduct = "N/A"
              /\ result.out.topRegion = "N/A"
        /\ result.op \in {"getRevenueByMonth", "getRevenueByRegion"} =>
              result.out.labels = <<>> /\ result.out.values = <<>>
        /\ result.op = "getTopProducts" => result.out = <<>>

\* getMetrics has run on a list emptied by deletes
C3_Witness ==
    /\ result.op = "getMetrics"
    /\ InputOf(result) = <<>>

----------------------------------------------------------------------------
(* C4: completionRate = count(completed) / totalOrders * 100 whenever       *)
(* totalOrders > 0 (two completed out of three give 66.67); with no orders  *)
(* the aggregator's completionRate is NaN, and the dataset viewer's         *)
(* calculateMetrics special-cases the empty list, so that it displays 0.    *)
C4_CompletionRate ==
    /\ result.op = "getMetrics" =>
          LET data == InputOf(result)
              c    == Cardinality(CompletedIdx(data))
          IN  /\ Len(data) > 0 =>
                    /\ result.out.completionRate =
                           [num |-> c, den |-> Len(data), scale |-> 100]
                    /\ (c = 2 /\ Len(data) = 3) =>
                           ToFixed(result.out.completionRate, 2) = 6667
              /\ Len(data) = 0 => IsNaN(result.out.completionRate)
    /\ (result.op = "calculateMetrics" /\ result.arg = 0) =>
          /\ IsZero(result.out.metrics.completionRate)
          /\ result.out.displayed = 0

\* getMetrics has run on three records of which two are completed
C4_Witness ==
    /\ result.op = "getMetrics"
    /\ result.out.totalOrders = 3
    /\ Cardinality(CompletedIdx(InputOf(result))) = 2

\* the viewer has computed its metrics on an empty list of a selected user
C4_WitnessViewerEmpty ==
    /\ result.op = "calculateMetrics"
    /\ result.user # ""
    /\ result.arg = 0

----------------------------------------------------------------------------
(* Grouping, for C2 and C8 *)

\* the keys (products, regions) of the completed records
KeysOf(data, field) == {data[i][field] : i \in CompletedIdx(data)}

IdxOf(data, field, k) == {i \in CompletedIdx(data) : data[i][field] = k}

SumKey(data, field, k) == SumOver(data, IdxOf(data, field, k))

\* the keys whose summed total_amount is maximal
MaxKeys(data, field) ==
    {k \in KeysOf(data, field) :
        \A k2 \in KeysOf(data, field) :
            SumKey(data, field, k) >= SumKey(data, field, k2)}

\* where a key is first met in the traversal of the completed records
FirstSeen(data, field, k) ==
    CHOOSE i \in IdxOf(data, field, k) : \A j \in IdxOf(data, field, k) : i <= j

\* among the maximal keys, the one met first
FirstEncountered(data, field) ==
    CHOOSE k \in MaxKeys(data, field) :
        \A k2 \in MaxKeys(data, field) :
            FirstSeen(data, field, k) <= FirstSeen(data, field, k2)

\* property enumeration order: keys that are array indices ("365") come
\* first, ascending; the other keys follow in the order first met
Precedes(data, field, a, b) ==
    IF ArrayIndex(a) >= 0
    THEN ArrayIndex(b) < 0 \/ ArrayIndex(a) <= ArrayIndex(b)
    ELSE ArrayIndex(b) < 0 /\ FirstSeen(data, field, a) <= FirstSeen(data, field, b)

FirstEnumerated(data, field) ==
    CHOOSE k \in MaxKeys(data, field) :
        \A k2 \in MaxKeys(data, field) : Precedes(data, field, k, k2)

----------------------------------------------------------------------------
----------------------------------------------------------------------------
C8_WitnessDefault ==
    /\ result.op = "getTopProducts"
    /\ result.arg = DefaultLimit
    /\ Len(result.out) = 3

----------------------------------------------------------------------------
C6_WitnessNoneCompleted ==
    /\ result.op = "getMetrics"
    /\ Len(InputOf(result)) > 0
    /\ CompletedIdx(InputOf(result)) = {}

----------------------------------------------------------------------------
\* the completed records dated in [from, to]
DatedIn(data, from, to) ==
    {i \in CompletedIdx(data) :
        DateTime(data[i].date) >= from /\ DateTime(data[i].date) <= to}

\* (recent - previous) / previous * 100 when previous > 0, else 0
GrowthOf(recent, previous) ==
    IF previous > 0 THEN Times(Div(recent - previous, previous), 100) ELSE Num(0)

(* C5 as stated: growthRate = (recent - previous) / previous * 100 when     *)
(* previous > 0 and 0 otherwise; previous is the revenue of the completed   *)
(* records dated in [now - 60d, now - 30d), recent that of the completed    *)
(* records dated in [now - 30d, now]; records older than 60 days or dated   *)
(* after now count in neither.                                              *)
C5_GrowthWindows ==
    result.op = "getMetrics" =>
        LET data     == InputOf(result)
            previous == DatedIn(data, now - 60 * TicksPerDay, now - 30 * TicksPerDay - 1)
            recent   == DatedIn(data, now - 30 * TicksPerDay, now)
        IN  result.out.growthRate =
                GrowthOf(SumOver(data, recent), SumOver(data, previous))

(* C5, what the code computes: the recent window has no upper end, so a     *)
(* completed record dated after now counts toward recent.                   *)
C5_GrowthRecentUnbounded ==
    result.op = "getMetrics" =>
        LET data     == InputOf(result)
            previous == DatedIn(data, now - 60 * TicksPerDay, now - 30 * TicksPerDay - 1)
            recent   == {i \in CompletedIdx(data) :
                            DateTime(data[i].date) >= now - 30 * TicksPerDay}
        IN  /\ result.out.growthRate =
                   GrowthOf(SumOver(data, recent), SumOver(data, previous))
            /\ recent \cap previous = {}

\* getMetrics has run with a completed record dated exactly now - 30d, one
\* in the previous window and none after now
C5_WitnessBoundary ==
    /\ result.op = "getMetrics"
    /\ LET data == InputOf(result)
       IN  /\ \E i \in CompletedIdx(data) :
                  DateTime(data[i].date) = now - 30 * TicksPerDay
           /\ DatedIn(data, now - 60 * TicksPerDay, now - 30 * TicksPerDay - 1) # {}
           /\ \A i \in CompletedIdx(data) : DateTime(data[i].date) <= now
           /\ ~IsZero(result.out.growthRate)

\* getMetrics has run with a completed record dated after now and a
\* positive previous revenue
C5_WitnessFuture ==
    /\ result.op = "getMetrics"
    /\ LET data == InputOf(result)
       IN  /\ \E i \in CompletedIdx(data) : DateTime(data[i].date) > now
           /\ DatedIn(data, now - 60 * TicksPerDay, now - 30 * TicksPerDay - 1) # {}

----------------------------------------------------------------------------
\* the calendar month of a record's date, as month and 2-digit year
MonthOf(date) ==
    LET c == CivilFromDays(date) IN [m |-> c.m, yy |-> c.y % 100]

\* months in chronological order (within one century)
MonthOrd(label) == label.yy * 12 + label.m

MonthsOf(data) == {MonthOf(data[i].date) : i \in CompletedIdx(data)}

MonthIdx(data, label) == {i \in CompletedIdx(data) : MonthOf(data[i].date) = label}

(* C7 as stated: getRevenueByMonth returns labels and values of equal       *)
(* length, at most 6, one entry per calendar month (month + 2-digit year)   *)
(* that has a completed record, in chronological ascending order, also      *)
(* across a year boundary ('Dec 24' before 'Jan 25'), keeping the 6 most    *)
(* recent months when there are more; each value is the rounded sum of      *)
(* total_amount of that month's completed records.                          *)
C7_MonthsChronological ==
    result.op = "getRevenueByMonth" =>
        LET data   == InputOf(result)
            labels == result.out.labels
            values == result.out.values
            months == MonthsOf(data)
            shown  == {labels[i] : i \in 1..Len(labels)}
        IN  /\ Len(labels) = Len(values)
            /\ Len(labels) <= 6
            /\ Len(labels) = IF Cardinality(months) < 6 THEN Cardinality(months) ELSE 6
            /\ shown \subseteq months
            /\ \A i \in 1..Len(labels) : \A j \in 1..Len(labels) :
                   i < j => MonthOrd(labels[i]) < MonthOrd(labels[j])
            /\ \A mo \in months \ shown : \A l \in shown : MonthOrd(mo) < MonthOrd(l)
            /\ \A i \in 1..Len(labels) :
                   values[i] = MathRound(SumOver(data, MonthIdx(data, labels[i])))

(* C7, what holds on every host: equal lengths, at most 6 entries, one      *)
(* entry per label, no label twice.                                         *)
C7_MonthsShape ==
    result.op = "getRevenueByMonth" =>
        LET labels == result.out.labels
        IN  /\ Len(labels) = Len(result.out.values)
            /\ Len(labels) <= 6
            /\ \A i \in 1..Len(labels) : \A j \in 1..Len(labels) :
                   i # j => labels[i] # labels[j]

\* getRevenueByMonth has run on completed records of December 2024 and
\* January 2025, on a host that does not shift the day
C7_WitnessYearBoundary ==
    /\ result.op = "getRevenueByMonth"
    /\ ~env.tzWest
    /\ MonthsOf(InputOf(result)) = {[m |-> 12, yy |-> 24], [m |-> 1, yy |-> 25]}
    /\ result.out.labels = <<[m |-> 1, yy |-> 25], [m |-> 12, yy |-> 24]>>

\* getRevenueByMonth has run on completed records of seven months
C7_WitnessSevenMonths ==
    /\ result.op = "getRevenueByMonth"
    /\ Cardinality(MonthsOf(InputOf(result))) = 7
    /\ Len(result.out.labels) = 6

----------------------------------------------------------------------------
(* C9 as stated: after any sequence of addSalesRecord, updateSalesRecord    *)
(* and deleteSalesRecord calls in mock mode, getRecentOrders(userId, N)     *)
(* returns the N records of the user with the most recent dates, in         *)
(* date-descending order (all records when there are fewer than N).         *)
C9_RecentByDate ==
    result.op = "getRecentOrders" =>
        LET data == InputOf(result)
            out  == result.out
            N    == result.arg
            ids  == {out[i].id : i \in 1..Len(out)}
        IN  /\ Len(out) = IF Len(data) < N THEN Len(data) ELSE N
            /\ \A i \in 1..Len(out) : \E j \in 1..Len(data) : data[j] = out[i]
            /\ Cardinality(ids) = Len(out)
            /\ \A i \in 1..Len(out) : \A j \in 1..Len(out) :
                   i < j => out[i].date >= out[j].date
            /\ \A j \in 1..Len(data) : data[j].id \notin ids =>
                   \A i \in 1..Len(out) : data[j].date <= out[i].date

(* C9, what the code computes: the first N records of the cached list, in   *)
(* the order of the list.                                                   *)
C9_RecentIsCacheHead ==
    result.op = "getRecentOrders" =>
        LET data == InputOf(result)
            out  == result.out
        IN  /\ Len(out) = IF Len(data) < result.arg THEN Len(data) ELSE result.arg
            /\ \A i \in 1..Len(out) : out[i] = data[i]

\* getRecentOrders(userId, 1) has run on a list whose head, added through
\* the form, is dated before another record of the list
C9_WitnessOldAdded ==
    /\ result.op = "getRecentOrders"
    /\ result.arg = 1
    /\ Len(InputOf(result)) >= 2
    /\ result.out = <<InputOf(result)[1]>>
    /\ \E j \in 2..Len(InputOf(result)) :
           InputOf(result)[j].date > InputOf(result)[1].date

\* getRecentOrders(userId) has run with the default limit on a list in date
\* order
C9_WitnessDefault ==
    /\ result.op = "getRecentOrders"
    /\ result.arg = DefaultRecentLimit
    /\ Len(result.out) = recordCount + 1
    /\ \A i \in 1..Len(result.out) : \A j \in 1..Len(result.out) :
           i < j => result.out[i].date >= result.out[j].date

----------------------------------------------------------------------------
\* the sizes and the data the claim lists
ClaimedSize(type) ==
    CASE type = "metric"   -> <<300, 150>>
      [] type = "chart"    -> <<400, 300>>
      [] type = "table"    -> <<500, 250>>
      [] type = "progress" -> <<250, 200>>
      [] type = "text"     -> <<300, 100>>

(* C10: addWidget(type) appends exactly one widget at the end of the        *)
(* collection and leaves every existing widget unchanged; the new widget    *)
(* has the given type, the default size of the type (metric 300x150, chart  *)
(* 400x300, table 500x250, progress 250x200, text 300x100) and the default  *)
(* data of the type (for metric: value '$0', change '0%', trend             *)
(* 'neutral'); on an empty collection the result has exactly one widget.    *)
C10_AddWidgetAppends ==
    [][result'.op = "addWidget" =>
        LET n    == Len(widgets)
            type == result'.arg
        IN  /\ Len(widgets') = n + 1
            /\ \A i \in 1..n : widgets'[i] = widgets[i]
            /\ widgets'[n + 1].type = type
            /\ <<widgets'[n + 1].size.width, widgets'[n + 1].size.height>>
                   = ClaimedSize(type)
            /\ widgets'[n + 1].data = getDefaultData(type)
            /\ type = "metric" =>
                   /\ widgets'[n + 1].data.value = "$0"
                   /\ widgets'[n + 1].data.change = "0%"
                   /\ widgets'[n + 1].data.trend = "neutral"
                   /\ DOMAIN widgets'[n + 1].data = {"value", "change", "trend"}
            /\ n = 0 => Len(widgets') = 1
            /\ UNCHANGED <<selectedWidget, isConfigOpen>>]_vars

\* addWidget('chart') has run on a collection of two widgets, a metric and
\* a table
C10_Witness ==
    /\ result.op = "addWidget"
    /\ result.arg = "chart"
    /\ Len(widgets) = 3
    /\ widgets[1].type = "metric"
    /\ widgets[2].type = "table"
    /\ widgets[3].type = "chart"
    /\ widgets[3].size = [width |-> 400, height |-> 300]

\* addWidget('metric') has run on an empty collection
C10_WitnessEmpty ==
    /\ result.op = "addWidget"
    /\ result.arg = "metric"
    /\ Len(widgets) = 1
    /\ widgets[1].size = [width |-> 300, height |-> 150]

----------------------------------------------------------------------------
(* The layout and its snapshot *)

IdsOf(ws) == {ws[i].id : i \in 1..Len(ws)}

(* C11: no two widgets of the collection share an id, after any sequence   *)
(* of addWidget, updateWidget, deleteWidget, clearDashboard and reloads of  *)
(* the snapshot.                                                            *)
C11_IdsUnique ==
    \A i, j \in 1..Len(widgets) : i # j => widgets[i].id # widgets[j].id

\* the application has started from an imported snapshot and shows two
\* widgets with one id
C11_WitnessImported ==
    /\ result.op = "mount"
    /\ Running
    /\ Len(widgets) = 2
    /\ widgets[1].id = widgets[2].id

\* the handlers of the store keep the ids apart: a collection without
\* duplicates has none after addWidget, updateWidget, deleteWidget or
\* clearDashboard
C11_HandlersKeepUnique ==
    [][(/\ result'.op \in {"addWidget", "updateWidget", "deleteWidget",
                           "clearDashboard"}
        /\ Cardinality(IdsOf(widgets)) = Len(widgets))
       => Cardinality(IdsOf(widgets')) = Len(widgets')]_vars

(* C12: updateWidget(id, partialFields) replaces exactly the named         *)
(* top-level fields of the matching widget and keeps its other fields;      *)
(* every other widget, the length and the order of the collection stay; if  *)
(* no widget has the id, the collection is unchanged.                       *)
C12_UpdateWidgetMerges ==
    [][result'.op = "updateWidget" =>
        LET id      == result'.arg.id
            updates == result'.arg.updates
        IN  /\ Len(widgets') = Len(widgets)
            /\ \A i \in 1..Len(widgets) :
                   IF widgets[i].id = id
                   THEN /\ DOMAIN widgets'[i] = DOMAIN widgets[i] \cup DOMAIN updates
                        /\ \A f \in DOMAIN updates : widgets'[i][f] = updates[f]
                        /\ \A f \in DOMAIN widgets[i] \ DOMAIN updates :
                               widgets'[i][f] = widgets[i][f]
                   ELSE widgets'[i] = widgets[i]
            /\ id \notin IdsOf(widgets) => widgets' = widgets]_vars

\* updateWidget('2', {position: {x: 120, y: 80}}) has run on a collection
\* of two widgets; the first one is where addWidget put it
C12_Witness ==
    /\ result.op = "updateWidget"
    /\ result.arg.id = "2"
    /\ "position" \in DOMAIN result.arg.updates
    /\ Len(widgets) = 2
    /\ widgets[2].id = "2"
    /\ widgets[2].position = [x |-> 120, y |-> 80]
    /\ widgets[2].size = getDefaultSize("progress")
    /\ widgets[1].position = [x |-> 50, y |-> 50]

\* updateWidget('2', ...) has run on a collection whose only widget has
\* id '1'
C12_WitnessAbsent ==
    /\ result.op = "updateWidget"
    /\ result.arg.id = "2"
    /\ Len(widgets) = 1
    /\ widgets[1].id = "1"

(* C13: deleteWidget(id) removes the widget with that id and no other; if  *)
(* that widget is the selected one, the selection becomes empty and the     *)
(* configuration panel is closed; if another widget is selected, the        *)
(* selection and the panel stay as they are.                                *)
C13_DeleteWidget ==
    [][result'.op = "deleteWidget" =>
        LET id == result'.arg
        IN  /\ IdsOf(widgets') = IdsOf(widgets) \ {id}
            /\ widgets' = SelectSeq(widgets, LAMBDA w : w.id # id)
            /\ (selectedWidget # <<>> /\ selectedWidget[1].id = id)
                   => (selectedWidget' = <<>> /\ isConfigOpen' = FALSE)
            /\ (selectedWidget # <<>> /\ selectedWidget[1].id # id)
                   => UNCHANGED <<selectedWidget, isConfigOpen>>]_vars

\* deleteWidget has removed one of three widgets while another one was
\* selected: that one is still selected and the panel still open
C13_Witness ==
    /\ result.op = "deleteWidget"
    /\ Len(widgets) = 2
    /\ result.arg \notin IdsOf(widgets)
    /\ selectedWidget # <<>>
    /\ selectedWidget[1].id # result.arg
    /\ selectedWidget[1].id \in IdsOf(widgets)
    /\ isConfigOpen

\* the snapshot of the layout the App shows
CurrentSnapshot ==
    JSONStringify([title |-> dashboardTitle, widgets |-> widgets,
                   lastModified |-> now])

(* C14: a burst of changes, each within the delay of the one before, makes *)
(* exactly one write to the storage, after the last change; the pending     *)
(* saves of the earlier changes are cancelled.  A save that is pending      *)
(* while another one is written is a change within the delay of it, so a    *)
(* write leaves no save pending.                                            *)
C14_OneWritePerBurst ==
    [][result'.op = "saveDashboard" => timers' = <<>>]_vars

\* a save was written while the save of a later change was pending
C14_WitnessBurst ==
    /\ result.op = "saveDashboard"
    /\ Len(timers) = 1
    /\ timers[1].widgets # <<>>
    /\ storage # <<CurrentSnapshot>>

(* C15: once the changes have stopped and the pending timers have fired,   *)
(* the snapshot holds exactly the current widgets and title, also after     *)
(* the change that empties the collection.                                  *)
C15_SnapshotCurrent ==
    (Running /\ timers = <<>>) => storage = <<CurrentSnapshot>>

\* the last widget of a dashboard titled 'User Dashboard' was deleted, no
\* timer is pending, and the snapshot still holds the widget
C15_WitnessEmptied ==
    /\ result.op = "deleteWidget"
    /\ Running
    /\ timers = <<>>
    /\ widgets = <<>>
    /\ dashboardTitle = "User Dashboard"
    /\ storage = <<JSONStringify([title        |-> "User Dashboard",
                                  widgets      |-> addWidget(<<>>, "progress", "1"),
                                  lastModified |-> now])>>

\* whenever the save effect does not skip the current state, the snapshot
\* is current once the timers have fired
C15_CurrentUnlessSkipped ==
    (/\ Running
     /\ timers = <<>>
     /\ Len(widgets) > 0 \/ dashboardTitle # "User Dashboard")
        => storage = <<CurrentSnapshot>>

\* the storage holds a snapshot that parses and has the shape of a layout
ValidSnapshot ==
    /\ storage # <<>>
    /\ ~JSONParse(storage[1]).threw
    /\ validateDashboardData(JSONParse(storage[1]).value)

(* C16: on startup, a valid snapshot gives the App its widgets and its     *)
(* title; with no snapshot, or one that does not parse or is not a layout,  *)
(* the App does not crash and shows the widgets of the built-in demo        *)
(* layout.                                                                  *)
C16_Startup ==
    result.op = "mount" =>
        /\ appStatus = "running"
        /\ IF ValidSnapshot
           THEN /\ widgets = JSONParse(storage[1]).value.widgets
                /\ dashboardTitle = JSONParse(storage[1]).value.title
           ELSE widgets # <<>>

\* the App has started from a snapshot that is not a layout: it shows the
\* banner and no widget
C16_WitnessInvalid ==
    /\ result.op = "mount"
    /\ storage = <<InvalidFile>>
    /\ Running
    /\ widgets = <<>>
    /\ error = "Failed to load saved dashboard. Loading default layout."

\* the App has started without a snapshot
C16_WitnessNoSnapshot ==
    /\ result.op = "mount"
    /\ storage = <<>>
    /\ appStatus = "crashed"

\* the part of C16 about a valid snapshot: the App runs with the widgets
\* and the title of the snapshot
C16_ValidSnapshotLoads ==
    (result.op = "mount" /\ ValidSnapshot) =>
        /\ Running
        /\ widgets = JSONParse(storage[1]).value.widgets
        /\ dashboardTitle = JSONParse(storage[1]).value.title

\* the App has started from a snapshot with a widget
C16_WitnessValid ==
    /\ result.op = "mount"
    /\ ValidSnapshot
    /\ Len(widgets) = 1
    /\ dashboardTitle = "User Dashboard"

\* what the load effect makes of a text of the storage: the widgets of
\* the layout it denotes, if it denotes one
LoadedWidgets(text) ==
    LET parsed == JSONParse(text)
    IN  IF ~parsed.threw /\ validateDashboardData(parsed.value)
        THEN parsed.value.widgets ELSE <<>>

\* a number of the widget is NaN
HasNaN(w) ==
    \/ NaNNumber \in {w.position.x, w.position.y, w.size.width, w.size.height}
    \/ w.type = "progress" /\ NaNNumber \in {w.data.current, w.data.target}

(* C17: saving the layout and loading it again yields a collection equal   *)
(* to the saved one, sizes and data set through the configuration panel     *)
(* included: same ids in the same order, same positions, sizes and data.    *)
C17_RoundTrip ==
    [][result'.op = "saveDashboard" =>
          LoadedWidgets(storage'[1]) = Head(timers).widgets]_vars

\* a layout was saved in which the width of a widget is NaN, set through
\* the width field of the panel
C17_WitnessNaN ==
    /\ result.op = "saveDashboard"
    /\ Len(widgets) = 1
    /\ widgets[1].size.width = NaNNumber
    /\ LoadedWidgets(storage[1]) # widgets
    /\ Len(LoadedWidgets(storage[1])) = 1
    /\ LoadedWidgets(storage[1])[1].size.width = NullValue

\* a collection whose numbers are numbers comes back equal
C17_RoundTripOfNumbers ==
    [][(/\ result'.op = "saveDashboard"
        /\ \A i \in 1..Len(Head(timers).widgets) :
               ~HasNaN(Head(timers).widgets[i]))
       => LoadedWidgets(storage'[1]) = Head(timers).widgets]_vars

----------------------------------------------------------------------------
(* The records of the cache *)

\* every record of every cached list
CachedRecords ==
    UNION {{mockDataCache[u][i] : i \in 1..Len(mockDataCache[u])} :
              u \in DOMAIN mockDataCache}

(* C18: every record written by the generator or through the add and the   *)
(* update form of the data manager has total_amount = quantity *            *)
(* unit_price, so that every cached record has after any sequence of        *)
(* generate, add, update and delete.                                        *)
C18_TotalIsQuantityTimesPrice ==
    \A r \in CachedRecords : r.total_amount = r.quantity * r.unit_price

\* the update form has changed the quantity of a generated record to 5,
\* and a record added through the form is cached with it
C18_Witness ==
    /\ result.op = "handleUpdateRecord"
    /\ result.out.quantity = 5
    /\ result.out.total_amount = 5 * result.out.unit_price
    /\ result.out.total_amount > 0
    /\ result.out \in CachedRecords
    /\ \E r \in CachedRecords : r.id.n = recordCount /\ r.quantity = 2

ReadOps ==
    {"getSalesData", "getMetrics", "getRevenueByMonth", "getRevenueByRegion",
     "getTopProducts", "getRecentOrders"}

\* what a read returns for a list of records
ReadOf(op, arg, salesData) ==
    CASE op = "getSalesData"       -> salesData
      [] op = "getMetrics"         -> getMetrics(salesData, now)
      [] op = "getRevenueByMonth"  -> getRevenueByMonth(salesData, env)
      [] op = "getRevenueByRegion" -> getRevenueByRegion(salesData)
      [] op = "getTopProducts"     -> getTopProducts(salesData, arg)
      [] op = "getRecentOrders"    -> getRecentOrders(salesData, arg)

(* C19: without a remote collaborator, two reads of the records of a user  *)
(* with no add, update or delete between them return the same records in    *)
(* the same order, whatever is read for other users in between; the random  *)
(* records of a user are generated at most once.  A read, of whichever      *)
(* user, leaves every cached list as it is, and returns what its            *)
(* aggregation makes of the cached list of its user.                        *)
C19_ReadsRepeat ==
    [][result'.op \in ReadOps =>
        /\ \A u \in DOMAIN mockDataCache :
               /\ u \in DOMAIN mockDataCache'
               /\ mockDataCache'[u] = mockDataCache[u]
        /\ result'.user \in DOMAIN mockDataCache'
        /\ result'.out = ReadOf(result'.op, result'.arg,
                                mockDataCache'[result'.user])]_vars

\* the records of user '1' were read from the cache while the cache held
\* the records of user '2' as well, generated from another draw
C19_Witness ==
    /\ result.op = "getSalesData"
    /\ result.user = "1"
    /\ DOMAIN mockDataCache = {"1", "2"}
    /\ result.out = mockDataCache["1"]
    /\ Len(result.out) = recordCount
    /\ result.out[1].quantity = 1
    /\ mockDataCache["2"][1].quantity = 3

----------------------------------------------------------------------------
(* Failures of the remote collaborator *)

\* the steps that end a call to the remote collaborator
RemoteOps ==
    {"getSalesData", "getRecentOrders",
     "handleAddRecord", "handleUpdateRecord", "handleDeleteRecord"}

(* C20: whenever a call to the remote collaborator fails, the failure is   *)
(* caught and afterwards mock or cached data has been returned in place of  *)
(* the remote result, or a user-visible error message is set; no failure    *)
(* passes with neither.  Stated for a collaborator every call to which      *)
(* fails.                                                                   *)
C20_FailureHandled ==
    [][result'.op \in RemoteOps =>
        \/ /\ result'.op \in ReadOps
           /\ result'.user \in DOMAIN mockDataCache'
           /\ result'.out = ReadOf(result'.op, result'.arg,
                                   mockDataCache'[result'.user])
        \/ error' # "null"]_vars

\* the add form was submitted, the call failed, and nothing shows it: no
\* banner, no record
C20_WitnessSilent ==
    /\ result.op = "handleAddRecord"
    /\ result.threw
    /\ result.out = "console.error"
    /\ error = "null"
    /\ Running
    /\ selectedUser = "1"

\* the reads fall back to the generated records
C20_ReadsFallBack ==
    [][result'.op \in {"getSalesData", "getRecentOrders"} =>
        /\ result'.user \in DOMAIN mockDataCache'
        /\ result'.out = ReadOf(result'.op, result'.arg,
                                mockDataCache'[result'.user])]_vars

\* getRecentOrders has returned the generated records of a user
C20_WitnessFallBack ==
    /\ result.op = "getRecentOrders"
    /\ result.user = "1"
    /\ Len(result.out) = recordCount


----------------------------------------------------------------------------
(* Inputs: what is typed into the number inputs of the configuration panel  *)
(* and of the forms of the data manager: a field that was cleared and a     *)
(* negative number.                                                         *)

InputValues == {<<>>, <<"-", "2">>}

InputForms ==
    {[date |-> Jan15, customer |-> "Acme Corp", product |-> "Mobile App",
      region |-> "Europe", status |-> "completed",
      quantity |-> quantityOnChange(v), unit_price |-> unitPriceOnChange(v)] :
        v \in InputValues}

InputEdits ==
    {[quantity |-> quantityOnChange(v), unit_price |-> unitPriceOnChange(v)] :
        v \in InputValues}

PInputs ==
    [users        |-> {"1"},
     supabase     |-> "null",
     draws        |-> ManagerDraws,
     forms        |-> InputForms,
     edits        |-> InputEdits,
     types        |-> {"progress"},
     ids          |-> {"1"},
     panelChanges |-> [field : {"width", "height", "current", "target"},
                       value : {<<>>}],
     cap          |-> recordCount + 1,
     maxTimers    |-> 1,
     maxLoads     |-> 1,
     quota        |-> {FALSE},
     stored       |-> {<<EmptySnapshot>>},
     nows         |-> {DateTime(Jan15)},
     envs         |-> {Chrome}]

InitInputs == StoreInit(PInputs)

NextInputs ==
    \/ Mount(PInputs)
    \/ AddWidget(PInputs)
    \/ HandleWidgetSelect
    \/ ConfigPanelOnChange(PInputs)
    \/ SelectUser(PInputs)
    \/ OpenDataManager(PInputs)
    \/ HandleAddRecord(PInputs)
    \/ HandleUpdateRecord(PInputs)
    \/ SaveDashboard(PInputs)

SpecInputs == InitInputs /\ [][NextInputs]_vars

\* the numbers of a widget that the panel sets
PanelNumbers(w) ==
    {w.size.width, w.size.height}
        \cup (IF w.type = "progress" THEN {w.data.current, w.data.target} ELSE {})

(* C21: every numeric field set from user input holds a number: the        *)
(* quantity and the unit price of every stored record, and the width, the  *)
(* height, the current and the target value of every widget, are never NaN, *)
(* and the quantity and the unit price of a record are never negative.      *)
C21_NumbersFromInputAreSafe ==
    /\ \A i \in 1..Len(widgets) : NaNNumber \notin PanelNumbers(widgets[i])
    /\ \A r \in CachedRecords :
           /\ r.quantity # NaNNumber /\ r.quantity >= 0
           /\ r.unit_price # NaNNumber /\ r.unit_price >= 0

\* a width field that was cleared is stored as NaN
C21_WitnessNaNWidth ==
    /\ result.op = "configPanelOnChange"
    /\ result.arg = [field |-> "width", value |-> <<>>]
    /\ widgets[1].size.width = NaNNumber

\* a quantity of -2 typed into the form of a new record is stored
C21_WitnessNegativeQuantity ==
    /\ result.op = "handleAddRecord"
    /\ \E r \in CachedRecords : r.quantity = 0 - 2

\* the part of the claim the forms of the data manager keep: no NaN is
\* stored in a record
C21_FormsStoreNoNaN ==
    \A r \in CachedRecords : r.quantity # NaNNumber /\ r.unit_price # NaNNumber

----------------------------------------------------------------------------
(* The dashboard of a user *)

\* the ids of the nine widgets of the dashboard of a user
UserWidgetIds(userId) ==
    {name \o "-" \o userId :
        name \in {"sales-revenue", "total-orders", "avg-order-value",
                  "revenue-chart", "region-chart", "recent-orders",
                  "top-products", "completion-rate", "revenue-goal"}}

\* the widgets and the title are those of the dashboard of a user
IsDashboardOf(userId) ==
    /\ Len(widgets) = 9
    /\ {widgets[i].id : i \in 1..Len(widgets)} = UserWidgetIds(userId)
    /\ dashboardTitle = UserName(userId) \o "'s Dashboard"

(* C23: the load of the dashboard of a user who has at least one sales      *)
(* record completes without error: the collection is then the nine widgets  *)
(* whose ids carry the id of the user, the title is "<name>'s Dashboard",   *)
(* and no error banner is shown.                                            *)
C23_LoadCompletes ==
    (/\ result.op = "loadUserDashboard"
     /\ mockDataCache[result.user] # <<>>)
    => (/\ ~result.threw
        /\ IsDashboardOf(result.user)
        /\ error = "null")

\* the load of a user with records ends in the catch block
C23_WitnessFailed ==
    /\ result.op = "loadUserDashboard"
    /\ mockDataCache[result.user] # <<>>
    /\ result.threw
    /\ error = "Failed to load user dashboard data."
    /\ widgets = <<>>

----------------------------------------------------------------------------
(* Writes: the records of two users are updated and deleted by ids that     *)
(* exist, that exist for the other user, and that do not exist.             *)

PWrites ==
    [users      |-> {"1", "2"},
     draws      |-> ManagerDraws,
     newRecords |-> FormRecords({"1"}, {Jan15}, {"Acme Corp"}, {"Mobile App"},
                                {"Europe"}, {"completed"}, {2}, {100}),
     updates    |-> {[user_id |-> "1", status |-> "cancelled"],
                     [user_id |-> "2", status |-> "pending"],
                     [status |-> "pending"]},
     updateIds  |-> IdsOver({"1", "2"}, 1),
     deleteIds  |-> IdsOver({"1", "2"}, recordCount),
     cap        |-> recordCount + 1,
     nows       |-> {DateTime(Jan15)},
     envs       |-> {Chrome}]

InitWrites == DataInit(PWrites)

NextWrites ==
    \/ GetSalesData(PWrites)
    \/ AddSalesRecord(PWrites)
    \/ UpdateSalesRecord(PWrites)
    \/ DeleteSalesRecord(PWrites)

SpecWrites == InitWrites /\ [][NextWrites]_vars

\* the list of the cache without the records of an id
Without(data, id) == SelectSeq(data, LAMBDA r : r.id # id)

\* the cached list of a user holds a record of the id
Holds(userId, id) ==
    /\ userId \in DOMAIN mockDataCache
    /\ \E i \in 1..Len(mockDataCache[userId]) : mockDataCache[userId][i].id = id

(* C25: without a remote collaborator updateSalesRecord(id, updates) fails  *)
(* with 'Record not found' and leaves the cache of every user unchanged     *)
(* when the cached list of updates.user_id holds no record of that id, and  *)
(* succeeds, changing that record alone, when it does;                      *)
(* deleteSalesRecord(id) removes exactly the record of that id, and changes *)
(* nothing and fails not when there is none.                                *)
C25_UpdateAndDelete ==
    [][/\ result'.op = "updateSalesRecord" =>
              IF Holds(result'.user, result'.arg)
              THEN /\ ~result'.threw
                   /\ result'.out.id = result'.arg
                   /\ result'.out.user_id = result'.user
                   /\ \E i \in 1..Len(mockDataCache[result'.user]) :
                          /\ mockDataCache[result'.user][i].id = result'.arg
                          /\ mockDataCache' =
                                 [mockDataCache EXCEPT ![result'.user][i] = result'.out]
              ELSE /\ result'.threw
                   /\ result'.out = "Record not found"
                   /\ mockDataCache' = mockDataCache
       /\ result'.op = "deleteSalesRecord" =>
              /\ ~result'.threw
              /\ mockDataCache' =
                     [u \in DOMAIN mockDataCache |->
                         Without(mockDataCache[u], result'.arg)]
              /\ \A u \in DOMAIN mockDataCache :
                     Len(mockDataCache'[u]) >= Len(mockDataCache[u]) - 1]_vars

\* an update fails for an id that the list of the other user holds
C25_WitnessNotFound ==
    /\ result.op = "updateSalesRecord"
    /\ result.threw
    /\ result.user = "2"
    /\ "2" \in DOMAIN mockDataCache
    /\ Holds("1", result.arg)

\* an update has changed the status of a record
C25_WitnessUpdated ==
    /\ result.op = "updateSalesRecord"
    /\ ~result.threw
    /\ result.out.status = "cancelled"
    /\ Holds("1", result.arg)

\* a record was deleted from a list, which still holds another
C25_WitnessDeleted ==
    /\ result.op = "deleteSalesRecord"
    /\ "1" \in DOMAIN mockDataCache
    /\ ~Holds("1", result.arg)
    /\ Len(mockDataCache["1"]) = recordCount - 1

----------------------------------------------------------------------------
(* Filters: the data manager of a user whose records differ in customer and *)
(* in status, with a search term and a status filter.                       *)

FilterDraws ==
    {[i \in 1..recordCount |-> d] :
        d \in DrawsOver({0}, {"Acme Corp"}, {"Mobile App"}, {"Europe"},
                        {"completed"}, {3}, {100})}

FilterForms ==
    {[date |-> Jan15, customer |-> "TechStart Inc", product |-> "Mobile App",
      region |-> "Europe", status |-> "pending", quantity |-> 2,
      unit_price |-> 150]}

FilterEdits == {[status |-> "pending"]}

PFilters ==
    [users         |-> {"1"},
     supabase      |-> "null",
     draws         |-> FilterDraws,
     forms         |-> FilterForms,
     edits         |-> FilterEdits,
     searchTerms   |-> {"", "acme corp"},
     statusFilters |-> {"all", "completed"},
     cap           |-> recordCount + 1,
     maxTimers     |-> 1,
     maxLoads      |-> 1,
     quota         |-> {FALSE},
     stored        |-> {<<EmptySnapshot>>},
     nows          |-> {DateTime(Jan15)},
     envs          |-> {Chrome}]

InitFilters == StoreInit(PFilters)

NextFilters ==
    \/ Mount(PFilters)
    \/ SelectUser(PFilters)
    \/ OpenDataManager(PFilters)
    \/ CloseDataManager
    \/ SetFilter(PFilters)
    \/ HandleAddRecord(PFilters)
    \/ HandleUpdateRecord(PFilters)
    \/ HandleDeleteRecord(PFilters)
    \/ SaveDashboard(PFilters)

SpecFilters == InitFilters /\ [][NextFilters]_vars

\* the last step was a handler of the data manager that did not fail
HandlerDone(ops) ==
    /\ result.op \in ops
    /\ ~result.threw
    /\ dataManager # <<>>

(* C28: without a remote collaborator, after an add, an update or a delete  *)
(* through the data manager the rows it shows are the current search term   *)
(* and status filter applied to the current cached records of the user.     *)
C28_RowsAreFilteredRecords ==
    HandlerDone({"handleAddRecord", "handleUpdateRecord", "handleDeleteRecord"})
    => Rows = applyFilters(mockDataCache[selectedUser],
                           dataManager[1].searchTerm, dataManager[1].statusFilter)

\* a deleted record is still a row of the table
C28_WitnessDeletedShown ==
    /\ HandlerDone({"handleDeleteRecord"})
    /\ \E row \in 1..Len(Rows) :
           findIndex(mockDataCache[selectedUser], Rows[row].id) = 0

\* the part of the claim that holds: the rows after an add, after a change
\* of the search term or of the status filter, and after the data manager
\* is opened
C28_RowsAfterAddAndFilter ==
    HandlerDone({"handleAddRecord", "applyFilters", "loadSalesData"})
    => Rows = applyFilters(mockDataCache[selectedUser],
                           dataManager[1].searchTerm, dataManager[1].statusFilter)

\* a record was added under a status filter that hides it
C28_WitnessAddHidden ==
    /\ HandlerDone({"handleAddRecord"})
    /\ dataManager[1].statusFilter = "completed"
    /\ Len(Rows) < Len(mockDataCache[selectedUser])

----------------------------------------------------------------------------
(* Saving: widgets are added and deleted while the timer of the auto-save   *)
(* effect is pending, and after it has fired.                               *)

savingWidgets == 2

PSaving ==
    [types     |-> {"metric"},
     ids       |-> {ToString(i) : i \in 1..savingWidgets},
     cap       |-> savingWidgets,
     maxTimers |-> 2,
     quota     |-> {FALSE},
     stored    |-> {<<>>, <<EmptySnapshot>>},
     nows      |-> {DateTime(Jan15)},
     envs      |-> {Chrome}]

InitSaving == StoreInit(PSaving)

NextSaving ==
    \/ Mount(PSaving)
    \/ AddWidget(PSaving)
    \/ DeleteWidget(PSaving)
    \/ HandleWidgetSelect
    \/ ClearDashboard(PSaving)
    \/ AutoSaveTimeout
    \/ SaveDashboard(PSaving)

SpecSaving == InitSaving /\ [][NextSaving]_vars

(* C30: the auto-save indicator never stays in 'Saving...': whenever the    *)
(* saving flag is true, the timer that sets it to false is pending, so that *)
(* the flag becomes false once the changes stop and the timer fires, also   *)
(* when the collection was emptied less than 500 ms after the change        *)
(* before.                                                                  *)
C30_SavingEnds == isLoading => timer

\* the collection was emptied while the timer was pending: the flag is
\* true, no timer is pending, and no step but a new change ends it
C30_WitnessStuck ==
    /\ result.op \in {"deleteWidget", "clearDashboard"}
    /\ widgets = <<>>
    /\ isLoading
    /\ ~timer
    /\ ~ENABLED AutoSaveTimeout

\* the part of the claim that holds: while the collection is not empty the
\* timer of the last change is pending whenever the flag is true
C30_SavingEndsUnlessEmptied == (isLoading /\ widgets # <<>>) => timer

\* the timers fire: the timeout of the auto-save effect and the debounced
\* save are run by the event loop once they are due
SpecSavingFair ==
    /\ SpecSaving
    /\ WF_vars(AutoSaveTimeout)
    /\ WF_vars(SaveDashboard(PSaving))

\* the claim as a liveness property: a flag that is true becomes false, or
\* the timer that sets it to false is pending again after a later change
C30_SavingEventuallyEnds == isLoading ~> (~isLoading \/ timer)

----------------------------------------------------------------------------
(* Users: a remote collaborator answers, and the users have no sales        *)
(* record yet, so that the loads of their dashboards succeed; a widget of   *)
(* the collection is selected while users are selected.                     *)

PUsers ==
    [users         |-> {"1", "2"},
     supabase      |-> "reachable",
     salesRecords  |-> [u \in {"1", "2"} |-> <<>>],
     types         |-> {"metric"},
     ids           |-> {"1"},
     widgetUpdates |-> {[position |-> [x |-> 120, y |-> 80]]},
     cap           |-> 1,
     maxTimers     |-> 1,
     maxLoads      |-> 2,
     quota         |-> {FALSE},
     stored        |-> {<<EmptySnapshot>>},
     nows          |-> {DateTime(Jan15)},
     envs          |-> {Chrome}]

InitUsers == StoreInit(PUsers)

NextUsers ==
    \/ Mount(PUsers)
    \/ AddWidget(PUsers)
    \/ UpdateWidget(PUsers)
    \/ DeleteWidget(PUsers)
    \/ HandleWidgetSelect
    \/ ClearDashboard(PUsers)
    \/ SelectUser(PUsers)
    \/ CompleteLoad(PUsers)
    \/ SaveDashboard(PUsers)

SpecUsers == InitUsers /\ [][NextUsers]_vars

(* C22: the loads of two users selected one after the other are not         *)
(* coordinated: a load that completes applies the widgets and the title     *)
(* built for its own user, whichever user is selected by then, so that the  *)
(* result of user A can be applied after that of user B and leave B         *)
(* selected over the dashboard of A.                                        *)
C22_LoadsNotCoordinated ==
    [][(result'.op = "loadUserDashboard" /\ ~result'.threw)
       => (IsDashboardOf(result.user))']_vars

\* user '2' is selected, both loads are over, and the widgets and the title
\* are those of user '1', whose load was the last to complete
C22_WitnessStale ==
    /\ selectedUser = "2"
    /\ loads = <<>>
    /\ result.op = "loadUserDashboard"
    /\ result.user = "1"
    /\ IsDashboardOf("1")

(* C26: whenever the configuration panel is open for a selected widget, a   *)
(* widget of that id is in the collection.                                  *)
C26_PanelWidgetExists ==
    (isConfigOpen /\ selectedWidget # <<>>)
    => \E i \in 1..Len(widgets) : widgets[i].id = selectedWidget[1].id

\* the panel is open for a widget that the load of a user dashboard has
\* replaced
C26_WitnessReplaced ==
    /\ result.op = "loadUserDashboard"
    /\ isConfigOpen
    /\ selectedWidget # <<>>
    /\ selectedWidget[1].id = "1"
    /\ IsDashboardOf(result.user)

\* the part of the claim that holds: the handlers of the widget store keep
\* the widget of an open panel in the collection
C26_HandlersKeepPanelWidget ==
    [][(/\ result'.op \notin {"loadUserDashboard"}
        /\ C26_PanelWidgetExists)
       => C26_PanelWidgetExists']_vars

----------------------------------------------------------------------------
(* Panel: the configuration panel of a metric or a chart widget, whose      *)
(* inputs are changed one after the other and whose changes are saved.      *)

PPanel ==
    [types        |-> {"metric", "chart"},
     ids          |-> {"1"},
     panelChanges |-> {[field |-> "width",     value |-> <<"3", "2", "0">>],
                       [field |-> "height",    value |-> <<"1", "8", "0">>],
                       [field |-> "value",     value |-> "$5"],
                       [field |-> "change",    value |-> "+5%"],
                       [field |-> "chartType", value |-> "bar"]},
     panelTitles  |-> {"New Metric", "Revenue"},
     colorOptions |-> {"#3B82F6", "#EF4444"},
     cap          |-> 1,
     maxTimers    |-> 1,
     quota        |-> {FALSE},
     stored       |-> {<<EmptySnapshot>>},
     nows         |-> {DateTime(Jan15)},
     envs         |-> {Chrome}]

InitPanel == StoreInit(PPanel)

NextPanel ==
    \/ Mount(PPanel)
    \/ AddWidget(PPanel)
    \/ DeleteWidget(PPanel)
    \/ HandleWidgetSelect
    \/ ConfigPanelOnChange(PPanel)
    \/ ConfigPanelSetState(PPanel)
    \/ HandleSave(PPanel)
    \/ CloseConfigPanel
    \/ SaveDashboard(PPanel)

SpecPanel == InitPanel /\ [][NextPanel]_vars

\* the part of a widget that holds a field of the panel
PartOf(field) ==
    CASE field \in {"width", "height"} -> "size"
      [] field = "chartType"           -> "config"
      [] OTHER                         -> "data"

\* a widget but for one field of the panel
ButFor(w, field) ==
    Merge(w, [part \in {PartOf(field)} |->
                 Merge(w[part], [f \in {field} |-> "edited"])])

\* a widget but for what Save Changes sets: its title and its colour
ButForSaved(w) ==
    Merge(w, [title |-> "edited", config |-> Merge(w.config, [color |-> "edited"])])

\* the widget of the collection that the panel is open for
PanelWidget == CHOOSE w \in Range(widgets) : w.id = selectedWidget[1].id

(* C27: while the panel is open, successive edits accumulate in the stored  *)
(* widget: an edit of one field through the panel, and Save Changes for the *)
(* title and the colour, leave every other field of the stored widget at    *)
(* its latest stored value.                                                 *)
C27_EditsAccumulate ==
    [][/\ result'.op = "configPanelOnChange" =>
              ButFor(PanelWidget', result'.arg.field)
                  = ButFor(PanelWidget, result'.arg.field)
       /\ result'.op = "handleSave" =>
              ButForSaved(PanelWidget') = ButForSaved(PanelWidget)]_vars

\* the part of the claim that holds: the first edit after the widget was
\* selected changes its field alone, and an edit of the data is kept by
\* Save Changes
C27_FirstEditAccumulates ==
    [][/\ (result'.op = "configPanelOnChange" /\ PanelWidget = selectedWidget[1]) =>
              ButFor(PanelWidget', result'.arg.field)
                  = ButFor(PanelWidget, result'.arg.field)
       /\ result'.op = "handleSave" =>
              /\ PanelWidget'.data = PanelWidget.data
              /\ PanelWidget'.size = PanelWidget.size
              /\ PanelWidget'.title = configPanel[1].title]_vars

\* Save Changes has kept the value that was typed into the panel before
C27_WitnessSavedAfterEdit ==
    /\ result.op = "handleSave"
    /\ widgets # <<>>
    /\ widgets[1].type = "metric"
    /\ widgets[1].data.value = "$5"
    /\ widgets[1].title = "Revenue"
    /\ widgets[1].config.color = "#EF4444"

\* the width that was typed and saved is the default again after the height
\* was typed: the snapshot of the storage still has it
C27_WitnessWidthReverted ==
    /\ result.op = "configPanelOnChange"
    /\ result.arg.field = "height"
    /\ widgets[1].size = [width |-> 300, height |-> 180]
    /\ storage # <<>>
    /\ LoadedWidgets(storage[1]) # <<>>
    /\ LoadedWidgets(storage[1])[1].size = [width |-> 320, height |-> 150]

----------------------------------------------------------------------------
(* Table: one table widget, of up to tableColumns columns and tableRows     *)
(* rows, whose cells and headers are edited.                                *)

tableColumns == 2

tableRows == 2

PTable ==
    [types      |-> {"table"},
     ids        |-> {"1"},
     maxColumns |-> tableColumns,
     maxRows    |-> tableRows,
     cellValues |-> {"Total"},
     cap        |-> 1,
     maxTimers  |-> 1,
     quota      |-> {FALSE},
     stored     |-> {<<EmptySnapshot>>},
     nows       |-> {DateTime(Jan15)},
     envs       |-> {Chrome}]

InitTable == StoreInit(PTable)

NextTable ==
    \/ Mount(PTable)
    \/ AddWidget(PTable)
    \/ AddColumn(PTable)
    \/ RemoveColumn(PTable)
    \/ AddRow(PTable)
    \/ RemoveRow(PTable)
    \/ UpdateCell(PTable)
    \/ UpdateHeader(PTable)
    \/ SaveDashboard(PTable)

SpecTable == InitTable /\ [][NextTable]_vars

\* at least one header, at least one row, and every row as long as the
\* headers
WellFormed(data) ==
    /\ Len(data.headers) >= 1
    /\ Len(data.rows) >= 1
    /\ \A r \in 1..Len(data.rows) : Len(data.rows[r]) = Len(data.headers)

TableOperations ==
    {"addColumn", "removeColumn", "addRow", "removeRow", "updateCell",
     "updateHeader"}

(* C24: a table widget has at least one header and at least one row, and    *)
(* every row is as long as the headers; addColumn, removeColumn, addRow,    *)
(* removeRow, updateCell and updateHeader keep this; removeColumn on a      *)
(* table of one column and removeRow on a table of one row change nothing;  *)
(* addColumn adds exactly one column and addRow exactly one row.            *)
C24_TableStaysWellFormed ==
    [][\A i \in Tables :
           (/\ result'.op \in TableOperations
            /\ result'.arg.id = widgets[i].id
            /\ WellFormed(widgets[i].data))
           => LET old == widgets[i].data
                  new == widgets'[i].data
              IN  /\ Len(widgets') = Len(widgets)
                  /\ WellFormed(new)
                  /\ result'.op = "addColumn" =>
                         /\ Len(new.headers) = Len(old.headers) + 1
                         /\ Len(new.rows) = Len(old.rows)
                  /\ result'.op = "addRow" =>
                         /\ Len(new.rows) = Len(old.rows) + 1
                         /\ new.headers = old.headers
                  /\ (result'.op = "removeColumn" /\ Len(old.headers) = 1) =>
                         widgets' = widgets
                  /\ (result'.op = "removeRow" /\ Len(old.rows) = 1) =>
                         widgets' = widgets
                  /\ result'.op \in {"updateCell", "updateHeader"} =>
                         /\ Len(new.headers) = Len(old.headers)
                         /\ Len(new.rows) = Len(old.rows)]_vars

\* every table of the collection is well formed
C24_TablesWellFormed == \A i \in Tables : WellFormed(widgets[i].data)

\* removeRow was called on a table of one row and has changed nothing: no
\* save is pending
C24_WitnessLastRowKept ==
    /\ result.op = "removeRow"
    /\ Tables # {}
    /\ Len(widgets[1].data.rows) = 1
    /\ timers = <<>>

\* a column was added to a table of two rows
C24_WitnessColumnAdded ==
    /\ result.op = "addColumn"
    /\ Tables # {}
    /\ Len(widgets[1].data.headers) = 2
    /\ Len(widgets[1].data.rows) = 2
    /\ widgets[1].data.rows[2] = <<"Row 2 Col 1", "New Cell">>

----------------------------------------------------------------------------
(* Dashboards: two users without a remote collaborator; the records of a    *)
(* user are deleted and added through the data manager, and the dashboard   *)
(* of a user is loaded again.                                               *)

PDashboards ==
    [users     |-> {"1", "2"},
     supabase  |-> "null",
     draws     |-> ManagerDraws,
     forms     |-> ManagerForms,
     edits     |-> {[quantity |-> 5]},
     cap       |-> recordCount,
     maxTimers |-> 1,
     maxLoads  |-> 1,
     quota     |-> {FALSE},
     stored    |-> {<<EmptySnapshot>>},
     nows      |-> {DateTime(Jan15)},
     envs      |-> {Chrome}]

InitDashboards == StoreInit(PDashboards)

NextDashboards ==
    \/ Mount(PDashboards)
    \/ SelectUser(PDashboards)
    \/ OpenDataManager(PDashboards)
    \/ CloseDataManager
    \/ HandleAddRecord(PDashboards)
    \/ HandleUpdateRecord(PDashboards)
    \/ HandleDeleteRecord(PDashboards)
    \/ SaveDashboard(PDashboards)

SpecDashboards == InitDashboards /\ [][NextDashboards]_vars

\* the widgets of the dashboard of a user, with the data aggregated from
\* the records of the cache
CurrentDashboard(userId) ==
    salesWidgets(userId, DashboardData(mockDataCache[userId], now, env).data)

\* the widgets whose data the aggregations give; the rows of the recent
\* orders are left out, which no record set with an order gives
Aggregated == {i \in 1..9 : i # 6}

(* C29: once the dashboard of a user is loaded, after a record is added,    *)
(* updated or deleted through the data manager and the data-update callback *)
(* has run, the data of every widget of the dashboard are the values        *)
(* aggregated from the current records of the user.                         *)
C29_WidgetsFollowRecords ==
    (/\ HandlerDone({"handleAddRecord", "handleUpdateRecord", "handleDeleteRecord"})
     /\ IsDashboardOf(selectedUser))
    => \A i \in Aggregated :
           widgets[i].data = CurrentDashboard(selectedUser)[i].data

\* a record was added for a user whose dashboard shows no order
C29_WitnessStaleDashboard ==
    /\ HandlerDone({"handleAddRecord"})
    /\ IsDashboardOf(selectedUser)
    /\ Len(mockDataCache[selectedUser]) = 1
    /\ widgets[2].id = "total-orders-" \o selectedUser
    /\ widgets[2].data.value = "0"

====
